---- MODULE Spec2Model ----
(***************************************************************************)
(* Model of the Telegram-export ingestion core of trade-reports            *)
(* (src/ingestion/html_parser.py).  Text is a sequence of characters: an   *)
(* ordinary character is a one-character string, a pictographic code point *)
(* is written by name ("ROCKET" is U+1F680, "RED" U+1F534, "GREEN"         *)
(* U+1F7E2, "DOWN" U+2B07, "UP" U+2B06, "VS16" U+FE0F, "CHECK" U+2705,     *)
(* "CROSS" U+274C, "SLOT" U+1F3B0, "CENT" U+00A2, "ARROW" U+2192, "LF" the *)
(* newline).  Every regular expression of the source is an operator over   *)
(* such sequences.                                                         *)
(***************************************************************************)
EXTENDS Integers, Sequences, FiniteSets, TLC

VARIABLES
    pc,              \* where the run is: see each specification
    exc,             \* the exception that ended the run, "" if none
    sample,          \* the description the input was rendered from (fixture)
    input,           \* the argument of the function or handler applied last
    output,          \* its result
    glob_files,      \* export_folder.glob("messages*.html"), in discovery order
    target_date,     \* the target_date argument of get_events
    html_files,      \* the sorted file list
    file_idx,        \* position of the for loop over html_files
    msg_idx,         \* number of message divs of the current file processed
    last_sender,     \* the carried sender
    all_events,      \* the list get_events builds
    origins,         \* for each appended event: the file, message and event
    prev_doc_sender, \* the carried sender when the previous file ended
    effects          \* what a publish run has done outside the process, in order

vars == <<pc, exc, sample, input, output, glob_files, target_date, html_files,
          file_idx, msg_idx, last_sender, all_events, origins, prev_doc_sender,
          effects>>

walker_vars == <<glob_files, target_date, html_files, file_idx, msg_idx,
                 last_sender, all_events, origins, prev_doc_sender, effects>>

(***************************************************************************)
(* Characters and character classes of Python's re module.                 *)
(***************************************************************************)
UpperLetters == <<"A","B","C","D","E","F","G","H","I","J","K","L","M",
                  "N","O","P","Q","R","S","T","U","V","W","X","Y","Z">>

LowerLetters == <<"a","b","c","d","e","f","g","h","i","j","k","l","m",
                  "n","o","p","q","r","s","t","u","v","w","x","y","z">>

Digits == <<"0","1","2","3","4","5","6","7","8","9">>

IsUpper(c) == \E k \in 1..26 : UpperLetters[k] = c

IsLower(c) == \E k \in 1..26 : LowerLetters[k] = c

IsDigit(c) == \E k \in 1..10 : Digits[k] = c

\* \s
IsSpace(c) == c \in {" ", "LF", "TAB"}

\* \w
IsWord(c) == IsUpper(c) \/ IsLower(c) \/ IsDigit(c) \/ c = "_"

\* case folding used by re.IGNORECASE and str.upper()
ToUpper(c) == IF IsLower(c)
              THEN UpperLetters[CHOOSE k \in 1..26 : LowerLetters[k] = c]
              ELSE c

DigitVal(c) == (CHOOSE k \in 1..10 : Digits[k] = c) - 1


SubStr(s, i, j) == IF j < i THEN << >> ELSE SubSeq(s, i, j)

\* the literal p occurs in s at position i
StartsAt(s, i, p) ==
    /\ i >= 1
    /\ i + Len(p) - 1 <= Len(s)
    /\ \A k \in 1..Len(p) : s[i + k - 1] = p[k]

\* the literal p occurs in s at position i, ignoring case
StartsAtCI(s, i, p) ==
    /\ i >= 1
    /\ i + Len(p) - 1 <= Len(s)
    /\ \A k \in 1..Len(p) : ToUpper(s[i + k - 1]) = ToUpper(p[k])

\* Python's "p in s"
Contains(s, p) == \E i \in 1..(Len(s) + 1) : StartsAt(s, i, p)

\* first index >= i whose character is not a whitespace (Len(s)+1 if none)
RECURSIVE SkipSpaces(_, _)
SkipSpaces(s, i) == IF i <= Len(s) /\ IsSpace(s[i]) THEN SkipSpaces(s, i + 1) ELSE i

\* \b at the gap before position i (between s[i-1] and s[i])
Boundary(s, i) ==
    LET before == i > 1 /\ i - 1 <= Len(s) /\ IsWord(s[i - 1])
        after  == i >= 1 /\ i <= Len(s) /\ IsWord(s[i])
    IN  before # after

(***************************************************************************)
(* EVENT_PATTERNS and _classify_event                                      *)
(***************************************************************************)
kwJACKPOT == <<"J","A","C","K","P","O","T">>
kwPARTIAL == <<"P","A","R","T","I","A","L">>
kwLOSS    == <<"L","O","S","S">>
kwWIN     == <<"W","I","N">>
kwFLIP    == <<"F","L","I","P">>
kwSIGNAL  == <<"S","I","G","N","A","L">>
kwStarted == <<"S","t","a","r","t","e","d">>

\* re "A\s+B" with IGNORECASE, searched anywhere
SearchTwoWordsCI(s, a, b) ==
    \E i \in 1..Len(s) :
        /\ StartsAtCI(s, i, a)
        /\ LET j == i + Len(a)
               k == SkipSpaces(s, j)
           IN  k > j /\ StartsAtCI(s, k, b)

\* re "\bW\b", case-sensitive, searched anywhere
SearchWord(s, w) ==
    \E i \in 1..Len(s) :
        /\ StartsAt(s, i, w)
        /\ Boundary(s, i)
        /\ Boundary(s, i + Len(w))

\* re "W" with IGNORECASE, searched anywhere
SearchCI(s, w) == \E i \in 1..Len(s) : StartsAtCI(s, i, w)

\* the seven rules, in list order: does rule r match s, and the kind it gives
PatternMatches(r, s) ==
    CASE r = 1 -> SearchCI(s, kwJACKPOT)
      [] r = 2 -> SearchTwoWordsCI(s, kwPARTIAL, kwLOSS)
      [] r = 3 -> SearchTwoWordsCI(s, kwPARTIAL, kwWIN)
      [] r = 4 -> SearchWord(s, kwLOSS)
      [] r = 5 -> SearchWord(s, kwWIN)
      [] r = 6 -> SearchTwoWordsCI(s, kwFLIP, kwSIGNAL)
      [] r = 7 -> SearchWord(s, kwSIGNAL)

PatternKind == <<"JACKPOT", "LOSS", "WIN", "LOSS", "WIN", "SIGNAL", "SIGNAL">>

NumPatterns == 7

EVENT_PATTERNS == 1..NumPatterns

\* keys of SIGNAL_EMOJI in insertion order, with the side each maps to
SIGNAL_EMOJI == << [emoji |-> <<"RED">>,          side |-> "NO"],
                   [emoji |-> <<"GREEN">>,        side |-> "YES"],
                   [emoji |-> <<"DOWN", "VS16">>, side |-> "NO"],
                   [emoji |-> <<"UP", "VS16">>,   side |-> "YES"],
                   [emoji |-> <<"DOWN">>,         side |-> "NO"],
                   [emoji |-> <<"UP">>,           side |-> "YES"] >>

\* one character too many: text[:6]
FirstChars_six(s) == SubStr(s, 1, IF Len(s) < 6 THEN Len(s) ELSE 6)

\* text[:5]
FirstChars(s) == SubStr(s, 1, IF Len(s) < 5 THEN Len(s) ELSE 5)

\* the list walked without returning at the first match: the last match wins
FirstPattern_last(s) ==
    IF \E r \in EVENT_PATTERNS : PatternMatches(r, s)
    THEN PatternKind[CHOOSE r \in EVENT_PATTERNS :
                        /\ PatternMatches(r, s)
                        /\ \A q \in (r + 1)..NumPatterns : ~PatternMatches(q, s)]
    ELSE "None"

\* the loop "for pattern, etype in EVENT_PATTERNS: if pattern.search(text)"
FirstPattern(s) ==
    IF \E r \in EVENT_PATTERNS : PatternMatches(r, s)
    THEN PatternKind[CHOOSE r \in EVENT_PATTERNS :
                        /\ PatternMatches(r, s)
                        /\ \A q \in 1..(r - 1) : ~PatternMatches(q, s)]
    ELSE "None"

\* the loop "for emoji in SIGNAL_EMOJI: if emoji in first_chars"
GlyphLed(s) == \E e \in 1..Len(SIGNAL_EMOJI) : Contains(FirstChars(s), SIGNAL_EMOJI[e].emoji)

\* the glyph test made before the startup test
classify_event_glyph_first(text) ==
    IF GlyphLed(text)
    THEN (IF FirstPattern(text) # "None" THEN FirstPattern(text) ELSE "SIGNAL")
    ELSE IF Contains(text, kwStarted) /\ Contains(text, <<"ROCKET">>)
         THEN "STARTUP"
         ELSE FirstPattern(text)

\* a leading glyph taken as a signal without looking at the keywords
classify_event_glyph_is_signal(text) ==
    IF Contains(text, kwStarted) /\ Contains(text, <<"ROCKET">>)
    THEN "STARTUP"
    ELSE IF GlyphLed(text) THEN "SIGNAL" ELSE FirstPattern(text)

classify_event(text) ==
    IF Contains(text, kwStarted) /\ Contains(text, <<"ROCKET">>)
    THEN "STARTUP"
    ELSE IF GlyphLed(text)
         THEN (IF FirstPattern(text) # "None" THEN FirstPattern(text) ELSE "SIGNAL")
         ELSE FirstPattern(text)

(***************************************************************************)
(* Optional values: None is the empty tuple, a present value v is <<v>>.   *)
(***************************************************************************)
None == << >>

Some(v) == <<v>>

(***************************************************************************)
(* Numerals.  A Python float is kept as an exact decimal [num, exp]        *)
(* meaning num / 10^exp, normalised so that equal numbers are equal values.*)
(***************************************************************************)
RECURSIVE Without(_, _)
\* str.replace(c, "")
Without(s, c) ==
    IF s = << >> THEN << >>
    ELSE IF Head(s) = c THEN Without(Tail(s), c)
         ELSE <<Head(s)>> \o Without(Tail(s), c)

RECURSIVE DigitsToInt(_)
\* int() of a run of decimal digits
DigitsToInt(ds) ==
    IF ds = << >> THEN 0
    ELSE 10 * DigitsToInt(SubStr(ds, 1, Len(ds) - 1)) + DigitVal(ds[Len(ds)])

RECURSIVE Normalise(_, _)
Normalise(num, exp) ==
    IF exp > 0 /\ num % 10 = 0 THEN Normalise(num \div 10, exp - 1)
    ELSE [num |-> num, exp |-> exp]

\* float(s) for s made of an optional leading "-", digits and dots:
\* raises ValueError unless there is at least one digit and at most one dot
ParseFloat(s) ==
    LET neg    == s # << >> /\ Head(s) = "-"
        body   == IF neg THEN Tail(s) ELSE s
        dots   == {i \in 1..Len(body) : body[i] = "."}
        wellformed == /\ \A i \in 1..Len(body) : IsDigit(body[i]) \/ body[i] = "."
                      /\ Cardinality(dots) <= 1
                      /\ \E i \in 1..Len(body) : IsDigit(body[i])
    IN  IF ~wellformed THEN [raised |-> TRUE, value |-> None]
        ELSE LET dot  == IF dots = {} THEN Len(body) + 1 ELSE CHOOSE i \in dots : TRUE
                 ip   == SubStr(body, 1, dot - 1)
                 fp   == SubStr(body, dot + 1, Len(body))
                 mag  == DigitsToInt(ip \o fp)
             IN  [raised |-> FALSE,
                  value  |-> Some(Normalise(IF neg THEN 0 - mag ELSE mag, Len(fp)))]

\* a malformed numeral swallowed: no value instead of the ValueError
parse_currency_swallow(s) ==
    [raised |-> FALSE, value |-> ParseFloat(Without(Without(s, ","), "+")).value]

\* the thousands separators left in place
parse_currency_keep_commas(s) == ParseFloat(Without(s, "+"))

\* float(s.replace(",", "").replace("+", ""))
parse_currency(s) == ParseFloat(Without(Without(s, ","), "+"))

\* end (exclusive) of the maximal run of characters satisfying Cls from i
RECURSIVE DigitRunEnd(_, _)
DigitRunEnd(s, i) == IF i <= Len(s) /\ IsDigit(s[i]) THEN DigitRunEnd(s, i + 1) ELSE i

RECURSIVE NumeralRunEnd(_, _)
\* [\d,.]+
NumeralRunEnd(s, i) ==
    IF i <= Len(s) /\ (IsDigit(s[i]) \/ s[i] \in {",", "."})
    THEN NumeralRunEnd(s, i + 1) ELSE i

\* "[+-]?[\d,.]+" anchored at i: the end (exclusive) of the match, 0 if none
SignedNumeralEnd(s, i) ==
    LET j == IF i <= Len(s) /\ s[i] \in {"+", "-"} THEN i + 1 ELSE i
        e == NumeralRunEnd(s, j)
    IN  IF e > j THEN e ELSE 0

(***************************************************************************)
(* FILL_RE and _parse_fills                                                *)
(***************************************************************************)
kwYES == <<"Y","E","S">>
kwNO  == <<"N","O">>

\* the three alternatives of (?:...) in FILL_RE, in order
FillArrows == << <<"ARROW">>, <<"-", ">">>, <<"&", "g", "t", ";">> >>

\* end (exclusive) of the arrow alternative matching at i, 0 if none
ArrowEnd(s, i) ==
    IF \E a \in 1..Len(FillArrows) : StartsAt(s, i, FillArrows[a])
    THEN i + Len(FillArrows[CHOOSE a \in 1..Len(FillArrows) :
                              /\ StartsAt(s, i, FillArrows[a])
                              /\ \A b \in 1..(a - 1) : ~StartsAt(s, i, FillArrows[b])])
    ELSE 0

NoMatch == [matched |-> FALSE]

\* FILL_RE anchored at position i
FillMatchAt(s, i) ==
    IF ~(i <= Len(s) /\ s[i] \in {"CHECK", "CROSS"}) THEN NoMatch
    ELSE
    LET p1 == SkipSpaces(s, i + 1)
        isYes == StartsAt(s, p1, kwYES)
        isNo  == StartsAt(s, p1, kwNO)
    IN  IF ~(isYes \/ isNo) THEN NoMatch
        ELSE
        LET p2 == p1 + (IF isYes THEN 3 ELSE 2)
            p3 == SkipSpaces(s, p2)
            p4 == DigitRunEnd(s, p3)
            p5 == DigitRunEnd(s, p4 + 1)
            p6 == SkipSpaces(s, p5 + 1)
            p7 == ArrowEnd(s, p6)
            p8 == SkipSpaces(s, p7)
            p9 == SignedNumeralEnd(s, p8 + 1)
        IN  IF /\ p3 > p2
               /\ p4 > p3
               /\ p4 <= Len(s) /\ s[p4] = "@"
               /\ p5 > p4 + 1
               /\ p5 <= Len(s) /\ s[p5] \in {"CENT", "c"}
               /\ p7 > 0
               /\ p8 <= Len(s) /\ s[p8] = "$"
               /\ p9 > 0
            THEN [matched |-> TRUE,
                  end     |-> p9,
                  g1      |-> s[i],
                  g2      |-> IF isYes THEN kwYES ELSE kwNO,
                  g3      |-> SubStr(s, p3, p4 - 1),
                  g4      |-> SubStr(s, p4 + 1, p5 - 1),
                  g5      |-> SubStr(s, p8 + 1, p9 - 1)]
            ELSE NoMatch

RECURSIVE FillFindIter(_, _)
\* FILL_RE.finditer(text): the non-overlapping matches from position i on
FillFindIter(s, i) ==
    IF i > Len(s) THEN << >>
    ELSE LET From(m) == IF m.matched THEN <<m>> \o FillFindIter(s, m.end)
                         ELSE FillFindIter(s, i + 1)
         IN  From(FillMatchAt(s, i))

\* the flag derived from the sign of the amount
FillIsWin_from_pnl(m, pnl) == pnl.num > 0

\* is_win=(m.group(1) == CHECK)
FillIsWin(m, pnl) == m.g1 = "CHECK"

\* Fill(...) built from one match; pnl is the result of _parse_currency
MakeFill(m) ==
    LET Made(pnl) ==
        [raised |-> pnl.raised,
         fill   |-> IF pnl.raised THEN None
                    ELSE Some([side        |-> IF m.g2 = kwYES THEN "YES" ELSE "NO",
                               quantity    |-> DigitsToInt(m.g3),
                               price_cents |-> DigitsToInt(m.g4),
                               pnl         |-> pnl.value[1],
                               is_win      |-> FillIsWin(m, pnl.value[1])])]
    IN  Made(parse_currency(m.g5))

\* _parse_fills: the list of Fill, or a raised ValueError from a numeral
parse_fills(text) ==
    LET Fills(built) ==
        IF \E k \in 1..Len(built) : built[k].raised
        THEN [raised |-> TRUE, fills |-> << >>]
        ELSE [raised |-> FALSE, fills |-> [k \in 1..Len(built) |-> built[k].fill[1]]]
        Built(ms) == Fills([k \in 1..Len(ms) |-> MakeFill(ms[k])])
    IN  Built(FillFindIter(text, 1))

(***************************************************************************)
(* datetime: the constructor raises ValueError outside the calendar        *)
(***************************************************************************)
IsLeap(y) == (y % 4 = 0 /\ y % 100 # 0) \/ y % 400 = 0

DaysInMonth(y, m) ==
    IF m = 2 THEN (IF IsLeap(y) THEN 29 ELSE 28)
    ELSE IF m \in {4, 6, 9, 11} THEN 30 ELSE 31

ValidDateTime(y, mo, d, h, mi, sec) ==
    /\ y >= 1 /\ y <= 9999
    /\ mo >= 1 /\ mo <= 12
    /\ d >= 1 /\ d <= DaysInMonth(y, mo)
    /\ h >= 0 /\ h <= 23
    /\ mi >= 0 /\ mi <= 59
    /\ sec >= 0 /\ sec <= 59

DateTime(y, mo, d, h, mi, sec) ==
    [year |-> y, month |-> mo, day |-> d, hour |-> h, minute |-> mi, second |-> sec]

\* datetime.date()
DateOf(dt) == [year |-> dt.year, month |-> dt.month, day |-> dt.day]

(***************************************************************************)
(* CONTRACT_ID_RE, MONTH_MAP and decode_contract                           *)
(***************************************************************************)
MONTH_MAP == << <<"J","A","N">>, <<"F","E","B">>, <<"M","A","R">>, <<"A","P","R">>,
                <<"M","A","Y">>, <<"J","U","N">>, <<"J","U","L">>, <<"A","U","G">>,
                <<"S","E","P">>, <<"O","C","T">>, <<"N","O","V">>, <<"D","E","C">> >>

\* MONTH_MAP.get(month_str, 1)
MonthDefault == 1

\* the index counted from zero
MonthOf_zero_based(month_str) ==
    IF \E k \in 1..Len(MONTH_MAP) : MONTH_MAP[k] = month_str
    THEN (CHOOSE k \in 1..Len(MONTH_MAP) : MONTH_MAP[k] = month_str) - 1
    ELSE MonthDefault

\* MONTH_MAP[month_str]: no month for an unknown abbreviation
MonthOf_strict(month_str) ==
    IF \E k \in 1..Len(MONTH_MAP) : MONTH_MAP[k] = month_str
    THEN CHOOSE k \in 1..Len(MONTH_MAP) : MONTH_MAP[k] = month_str
    ELSE 0

MonthOf(month_str) ==
    IF \E k \in 1..Len(MONTH_MAP) : MONTH_MAP[k] = month_str
    THEN CHOOSE k \in 1..Len(MONTH_MAP) : MONTH_MAP[k] = month_str
    ELSE MonthDefault

RECURSIVE UpperRunEnd(_, _)
UpperRunEnd(s, i) == IF i <= Len(s) /\ IsUpper(s[i]) THEN UpperRunEnd(s, i + 1) ELSE i

AllDigits(s, i, n) == i + n - 1 <= Len(s) /\ \A k \in i..(i + n - 1) : IsDigit(s[k])

AllUpper(s, i, n) == i + n - 1 <= Len(s) /\ \A k \in i..(i + n - 1) : IsUpper(s[k])

\* "-(\d{2})([A-Z]{3})(\d{2})(\d{4})-(\d{2})" anchored at i
ContractTailAt(s, i) ==
    /\ i + 14 <= Len(s)
    /\ s[i] = "-"
    /\ AllDigits(s, i + 1, 2)
    /\ AllUpper(s, i + 3, 3)
    /\ AllDigits(s, i + 6, 2)
    /\ AllDigits(s, i + 8, 4)
    /\ s[i + 12] = "-"
    /\ AllDigits(s, i + 13, 2)

\* CONTRACT_ID_RE anchored at i.  [A-Z]+ is greedy: it runs to the end e of
\* the capital letters; "15M" can only follow at e, and "D" can only be the
\* last capital of the run, given back by backtracking.
ContractIdMatchAt(s, i) ==
    IF ~StartsAt(s, i, <<"K", "X">>) THEN NoMatch
    ELSE
    LET e == UpperRunEnd(s, i + 2)
    IN  IF e > i + 2 /\ StartsAt(s, e, <<"1", "5", "M">>) /\ ContractTailAt(s, e + 3)
        THEN [matched |-> TRUE, g1 |-> SubStr(s, i + 2, e - 1),
              g2 |-> <<"1", "5", "M">>, tail |-> e + 3]
        ELSE IF e > i + 3 /\ s[e - 1] = "D" /\ ContractTailAt(s, e)
        THEN [matched |-> TRUE, g1 |-> SubStr(s, i + 2, e - 2),
              g2 |-> <<"D">>, tail |-> e]
        ELSE NoMatch

\* CONTRACT_ID_RE.search: the leftmost match
ContractIdSearch(s) ==
    IF \E i \in 1..Len(s) : ContractIdMatchAt(s, i).matched
    THEN ContractIdMatchAt(s, CHOOSE i \in 1..Len(s) :
                                  /\ ContractIdMatchAt(s, i).matched
                                  /\ \A j \in 1..(i - 1) : ~ContractIdMatchAt(s, j).matched)
    ELSE NoMatch

\* the timeframe token as it is written
TimeframeName_raw(g2) == g2

\* "1HR" if timeframe == "D" else timeframe
TimeframeName(g2) == IF g2 = <<"D">> THEN <<"1", "H", "R">> ELSE g2

\* the result is tagged: "None", "raise" (ValueError from datetime) or
\* "ContractInfo" with all five fields
decode_contract(contract_str) ==
    LET Decoded(m) ==
            IF ~m.matched THEN [tag |-> "None"]
            ELSE
            LET t      == m.tail
                year   == 2000 + DigitsToInt(SubStr(contract_str, t + 1, t + 2))
                month  == MonthOf(SubStr(contract_str, t + 3, t + 5))
                day    == DigitsToInt(SubStr(contract_str, t + 6, t + 7))
                hour   == DigitsToInt(SubStr(contract_str, t + 8, t + 9))
                minute == DigitsToInt(SubStr(contract_str, t + 10, t + 11))
                second == DigitsToInt(SubStr(contract_str, t + 13, t + 14))
            IN  IF ~ValidDateTime(year, month, day, hour, minute, second)
                THEN [tag |-> "raise", exc |-> "ValueError"]
                ELSE [tag         |-> "ContractInfo",
                      asset       |-> m.g1,
                      timeframe   |-> TimeframeName(m.g2),
                      date        |-> DateOf(DateTime(year, month, day, hour, minute, second)),
                      expiry_time |-> DateTime(year, month, day, hour, minute, second),
                      raw         |-> contract_str]
    IN  Decoded(ContractIdSearch(contract_str))

(***************************************************************************)
(* Generic leftmost search: M(s, i) is a pattern anchored at i             *)
(***************************************************************************)
SearchFirst(s, M(_, _)) ==
    IF \E i \in 1..Len(s) : M(s, i).matched
    THEN M(s, CHOOSE i \in 1..Len(s) :
                 /\ M(s, i).matched
                 /\ \A j \in 1..(i - 1) : ~M(s, j).matched)
    ELSE NoMatch

(***************************************************************************)
(* TS_RE and datetime.strptime(..., "%d.%m.%Y %H:%M:%S")                   *)
(***************************************************************************)
\* "(\d{2}\.\d{2}\.\d{4}\s+\d{2}:\d{2}:\d{2})" anchored at i
TsMatchAt(s, i) ==
    IF /\ AllDigits(s, i, 2)
       /\ StartsAt(s, i + 2, <<".">>)
       /\ AllDigits(s, i + 3, 2)
       /\ StartsAt(s, i + 5, <<".">>)
       /\ AllDigits(s, i + 6, 4)
       /\ SkipSpaces(s, i + 10) > i + 10
       /\ LET t == SkipSpaces(s, i + 10)
          IN  /\ AllDigits(s, t, 2)
              /\ StartsAt(s, t + 2, <<":">>)
              /\ AllDigits(s, t + 3, 2)
              /\ StartsAt(s, t + 5, <<":">>)
              /\ AllDigits(s, t + 6, 2)
    THEN [matched |-> TRUE, d |-> i, t |-> SkipSpaces(s, i + 10)]
    ELSE NoMatch

TS_RE_search(title) == SearchFirst(title, TsMatchAt)

\* strptime of the matched group: ValueError when a group is out of range
StrpTime(title, m) ==
    LET day    == DigitsToInt(SubStr(title, m.d, m.d + 1))
        month  == DigitsToInt(SubStr(title, m.d + 3, m.d + 4))
        year   == DigitsToInt(SubStr(title, m.d + 6, m.d + 9))
        hour   == DigitsToInt(SubStr(title, m.t, m.t + 1))
        minute == DigitsToInt(SubStr(title, m.t + 3, m.t + 4))
        second == DigitsToInt(SubStr(title, m.t + 6, m.t + 7))
    IN  IF ValidDateTime(year, month, day, hour, minute, second)
        THEN [raised |-> FALSE, value |-> Some(DateTime(year, month, day, hour, minute, second))]
        ELSE [raised |-> TRUE, value |-> None]

(***************************************************************************)
(* Text normalisation of _parse_message                                    *)
(***************************************************************************)
RECURSIVE ReplaceAll(_, _, _)
\* str.replace(pat, rep)
ReplaceAll(s, pat, rep) ==
    IF s = << >> THEN << >>
    ELSE IF StartsAt(s, 1, pat)
         THEN rep \o ReplaceAll(SubStr(s, Len(pat) + 1, Len(s)), pat, rep)
         ELSE <<Head(s)>> \o ReplaceAll(Tail(s), pat, rep)

RECURSIVE FindChar(_, _, _)
\* index of the first c at or after i, 0 if none
FindChar(s, i, c) ==
    IF i > Len(s) THEN 0
    ELSE IF s[i] = c THEN i ELSE FindChar(s, i + 1, c)

RECURSIVE StripTags(_)
\* re.sub(r"<[^>]+>", "", s)
StripTags(s) ==
    IF s = << >> THEN << >>
    ELSE LET close == FindChar(s, 2, ">")
         IN  IF Head(s) = "<" /\ close > 2
             THEN StripTags(SubStr(s, close + 1, Len(s)))
             ELSE <<Head(s)>> \o StripTags(Tail(s))

RECURSIVE LStrip(_)
LStrip(s) == IF s # << >> /\ IsSpace(Head(s)) THEN LStrip(Tail(s)) ELSE s

RECURSIVE RStrip(_)
RStrip(s) == IF s # << >> /\ IsSpace(s[Len(s)]) THEN RStrip(SubStr(s, 1, Len(s) - 1)) ELSE s

\* str.strip()
Strip(s) == RStrip(LStrip(s))

BR1 == <<"<", "b", "r", ">">>
BR2 == <<"<", "b", "r", "/", ">">>

\* raw_html.replace("<br>", "\n").replace("<br/>", "\n")
RawText(raw_html) == ReplaceAll(ReplaceAll(raw_html, BR1, <<"LF">>), BR2, <<"LF">>)

PlainText(raw_html) == Strip(StripTags(RawText(raw_html)))

\* the text _parse_fills is applied to
HtmlText(raw_html) == RawText(raw_html)

(***************************************************************************)
(* Field regular expressions                                               *)
(***************************************************************************)
kSide     == <<"S","i","d","e",":">>
kTier     == <<"T","i","e","r">>
kGap      == <<"G","a","p",":">>
kHurdle   == <<"H","u","r","d","l","e",":">>
kExpMove  == <<"E","x","p","M","o","v","e",":">>
kContract == <<"C","o","n","t","r","a","c","t",":">>
kStrike   == <<"S","t","r","i","k","e",":">>
kNet      == <<"N","e","t",":">>
kSession  == <<"S","e","s","s","i","o","n",":">>
kFlips    == <<"F","l","i","p","s",":">>

\* SIDE_RE "Side:\s*(YES|NO)"
SideMatchAt(s, i) ==
    LET p == SkipSpaces(s, i + Len(kSide))
    IN  IF StartsAt(s, i, kSide) /\ (StartsAt(s, p, kwYES) \/ StartsAt(s, p, kwNO))
        THEN [matched |-> TRUE, g1 |-> IF StartsAt(s, p, kwYES) THEN kwYES ELSE kwNO]
        ELSE NoMatch

\* "KEY\s*(\d+)": TIER_RE, FLIPS_RE
KeyDigitsMatchAt(s, i, key) ==
    LET p == SkipSpaces(s, i + Len(key))
        e == DigitRunEnd(s, p)
    IN  IF StartsAt(s, i, key) /\ e > p
        THEN [matched |-> TRUE, g1 |-> SubStr(s, p, e - 1)]
        ELSE NoMatch

TierMatchAt(s, i) == KeyDigitsMatchAt(s, i, kTier)

FlipsMatchAt(s, i) == KeyDigitsMatchAt(s, i, kFlips)

\* "KEY\s*\$([+-]?[\d,.]+)": GAP_RE, NET_RE
KeySignedMoneyMatchAt(s, i, key) ==
    LET p == SkipSpaces(s, i + Len(key))
        e == SignedNumeralEnd(s, p + 1)
    IN  IF StartsAt(s, i, key) /\ StartsAt(s, p, <<"$">>) /\ e > 0
        THEN [matched |-> TRUE, g1 |-> SubStr(s, p + 1, e - 1)]
        ELSE NoMatch

GapMatchAt(s, i) == KeySignedMoneyMatchAt(s, i, kGap)

NetMatchAt(s, i) == KeySignedMoneyMatchAt(s, i, kNet)

\* EXPMOVE_RE "ExpMove:\s*\$([\d,.]+)"
ExpMoveMatchAt(s, i) ==
    LET p == SkipSpaces(s, i + Len(kExpMove))
        e == NumeralRunEnd(s, p + 1)
    IN  IF StartsAt(s, i, kExpMove) /\ StartsAt(s, p, <<"$">>) /\ e > p + 1
        THEN [matched |-> TRUE, g1 |-> SubStr(s, p + 1, e - 1)]
        ELSE NoMatch

\* STRIKE_RE "Strike:\s*([\d,.]+)"
StrikeMatchAt(s, i) ==
    LET p == SkipSpaces(s, i + Len(kStrike))
        e == NumeralRunEnd(s, p)
    IN  IF StartsAt(s, i, kStrike) /\ e > p
        THEN [matched |-> TRUE, g1 |-> SubStr(s, p, e - 1)]
        ELSE NoMatch

RECURSIVE DigitDotRunEnd(_, _)
\* [\d.]+
DigitDotRunEnd(s, i) ==
    IF i <= Len(s) /\ (IsDigit(s[i]) \/ s[i] = ".") THEN DigitDotRunEnd(s, i + 1) ELSE i

\* HURDLE_RE "Hurdle:\s*([\d.]+)x"
HurdleMatchAt(s, i) ==
    LET p == SkipSpaces(s, i + Len(kHurdle))
        e == DigitDotRunEnd(s, p)
    IN  IF StartsAt(s, i, kHurdle) /\ e > p /\ StartsAt(s, e, <<"x">>)
        THEN [matched |-> TRUE, g1 |-> SubStr(s, p, e - 1)]
        ELSE NoMatch

RECURSIVE AlnumRunEnd(_, _)
\* [A-Z0-9]+
AlnumRunEnd(s, i) ==
    IF i <= Len(s) /\ (IsUpper(s[i]) \/ IsDigit(s[i])) THEN AlnumRunEnd(s, i + 1) ELSE i

\* CONTRACT_RE "Contract:\s*([A-Z0-9]+-[A-Z0-9]+-[A-Z0-9]+)"
ContractMatchAt(s, i) ==
    LET p  == SkipSpaces(s, i + Len(kContract))
        e1 == AlnumRunEnd(s, p)
        e2 == AlnumRunEnd(s, e1 + 1)
        e3 == AlnumRunEnd(s, e2 + 1)
    IN  IF /\ StartsAt(s, i, kContract)
           /\ e1 > p /\ StartsAt(s, e1, <<"-">>)
           /\ e2 > e1 + 1 /\ StartsAt(s, e2, <<"-">>)
           /\ e3 > e2 + 1
        THEN [matched |-> TRUE, g1 |-> SubStr(s, p, e3 - 1)]
        ELSE NoMatch

\* SESSION_RE "Session:\s*(\d+)W-(\d+)L\s*\|\s*\$([+-]?[\d,.]+)"
SessionMatchAt(s, i) ==
    LET p  == SkipSpaces(s, i + Len(kSession))
        e1 == DigitRunEnd(s, p)
        e2 == DigitRunEnd(s, e1 + 2)
        b  == SkipSpaces(s, e2 + 1)
        d  == SkipSpaces(s, b + 1)
        e3 == SignedNumeralEnd(s, d + 1)
    IN  IF /\ StartsAt(s, i, kSession)
           /\ e1 > p /\ StartsAt(s, e1, <<"W", "-">>)
           /\ e2 > e1 + 2 /\ StartsAt(s, e2, <<"L">>)
           /\ StartsAt(s, b, <<"|">>)
           /\ StartsAt(s, d, <<"$">>)
           /\ e3 > 0
        THEN [matched |-> TRUE, g1 |-> SubStr(s, p, e1 - 1),
              g2 |-> SubStr(s, e1 + 2, e2 - 1), g3 |-> SubStr(s, d + 1, e3 - 1)]
        ELSE NoMatch

(***************************************************************************)
(* _extract_bot_and_asset                                                  *)
(***************************************************************************)
KNOWN_ASSETS == { <<"B","T","C">>, <<"E","T","H">>, <<"S","O","L">>, <<"X","R","P">> }

sUNKNOWN == <<"U","N","K","N","O","W","N">>
sUnknown == <<"U","n","k","n","o","w","n">>
s15M     == <<"1","5","M">>
s1HR     == <<"1","H","R">>

\* the class [\s U+1F300-U+1F9FF U+2600-U+2BFF U+FE0F U+200D]
IsLeadingSymbol(c) ==
    \/ IsSpace(c)
    \/ c \in {"ROCKET", "RED", "GREEN", "SLOT"}
    \/ c \in {"DOWN", "UP", "CHECK", "CROSS"}
    \/ c \in {"VS16", "ZWJ"}

RECURSIVE StripLeadingSymbols(_)
\* re.sub(r"^[...]+", "", s)
StripLeadingSymbols(s) ==
    IF s # << >> /\ IsLeadingSymbol(Head(s)) THEN StripLeadingSymbols(Tail(s)) ELSE s

\* the keyword list of the removal loop, in loop order
StripKeywords == << kwFLIP \o <<" ">> \o kwSIGNAL,
                    kwJACKPOT \o <<" ">> \o s1HR,
                    kwJACKPOT,
                    kwPARTIAL \o <<" ">> \o kwLOSS,
                    kwPARTIAL \o <<" ">> \o kwWIN,
                    kwLOSS, kwWIN, kwSIGNAL, kwStarted >>

\* re.sub(rf"^\s*{kw}\s*", "", s, count=1)
StripKeyword(s, kw) ==
    LET p == SkipSpaces(s, 1)
    IN  IF StartsAt(s, p, kw)
        THEN SubStr(s, SkipSpaces(s, p + Len(kw)), Len(s))
        ELSE s

RECURSIVE StripKeywordsFrom_first_only(_, _)
\* the loop left at the first keyword removed
StripKeywordsFrom_first_only(s, k) ==
    IF k > Len(StripKeywords) THEN s
    ELSE IF StripKeyword(s, StripKeywords[k]) # s
         THEN StripKeyword(s, StripKeywords[k])
         ELSE StripKeywordsFrom_first_only(s, k + 1)

RECURSIVE StripKeywordsFrom(_, _)
\* the for loop over the keyword list from index k on
StripKeywordsFrom(s, k) ==
    IF k > Len(StripKeywords) THEN s
    ELSE StripKeywordsFrom(StripKeyword(s, StripKeywords[k]), k + 1)

\* s.split(c)[0]
BeforeFirst(s, c) ==
    LET i == FindChar(s, 1, c)
    IN  IF i = 0 THEN s ELSE SubStr(s, 1, i - 1)

\* replace("&amp;", "&").replace("&lt;", "<").replace("&gt;", ">")
DecodeEntities(s) ==
    ReplaceAll(ReplaceAll(ReplaceAll(s, <<"&","a","m","p",";">>, <<"&">>),
                          <<"&","l","t",";">>, <<"<">>),
               <<"&","g","t",";">>, <<">">>)

RECURSIVE NonSpaceRunEnd(_, _)
NonSpaceRunEnd(s, i) == IF i <= Len(s) /\ ~IsSpace(s[i]) THEN NonSpaceRunEnd(s, i + 1) ELSE i

RECURSIVE Split(_)
\* str.split(): the whitespace-separated tokens
Split(s) ==
    LET p == SkipSpaces(s, 1)
        e == NonSpaceRunEnd(s, p)
    IN  IF p > Len(s) THEN << >>
        ELSE <<SubStr(s, p, e - 1)>> \o Split(SubStr(s, e, Len(s)))

RECURSIVE Join(_)
\* " ".join(tokens)
Join(tokens) ==
    IF tokens = << >> THEN << >>
    ELSE IF Len(tokens) = 1 THEN tokens[1]
         ELSE tokens[1] \o <<" ">> \o Join(Tail(tokens))

\* str.upper()
UpperStr(s) == [k \in 1..Len(s) |-> ToUpper(s[k])]

RECURSIVE Sub1HR(_)
\* re.sub(r"\s*1HR\s*", " ", s, flags=re.IGNORECASE)
Sub1HR(s) ==
    IF s = << >> THEN << >>
    ELSE LET p == SkipSpaces(s, 1)
         IN  IF StartsAtCI(s, p, s1HR)
             THEN <<" ">> \o Sub1HR(SubStr(s, SkipSpaces(s, p + 3), Len(s)))
             ELSE <<Head(s)>> \o Sub1HR(Tail(s))

RECURSIVE SubStrayHyphens(_)
\* re.sub(r"-\s+-", "-", s)
SubStrayHyphens(s) ==
    IF s = << >> THEN << >>
    ELSE LET p == SkipSpaces(s, 2)
         IN  IF Head(s) = "-" /\ p > 2 /\ StartsAt(s, p, <<"-">>)
             THEN <<"-">> \o SubStrayHyphens(SubStr(s, p + 1, Len(s)))
             ELSE <<Head(s)>> \o SubStrayHyphens(Tail(s))

\* CONTRACT_RE.search(text) followed by decode_contract(group 1):
\* tag "None" also when the text has no contract field
DecodeEmbedded(text) ==
    LET Found(cm) == IF cm.matched THEN decode_contract(cm.g1) ELSE [tag |-> "None"]
    IN  Found(SearchFirst(text, ContractMatchAt))

\* the cleaned first line (up to the entity decoding and the final strip)
CleanFirstLine(text) ==
    LET first_line == Strip(BeforeFirst(text, "LF"))
        c1 == StripLeadingSymbols(first_line)
        c2 == StripKeywordsFrom(c1, 1)
        c3 == StripLeadingSymbols(c2)
        c4 == IF FindChar(c3, 1, ":") > 0 THEN Strip(BeforeFirst(c3, ":")) ELSE c3
    IN  Strip(DecodeEntities(c4))

\* result: [raised, bot_name, asset, timeframe]
extract_bot_and_asset(text) ==
    LET Resolved(cleaned, tokens, cinfo) ==
        LET lastKnown == tokens # << >> /\ UpperStr(tokens[Len(tokens)]) \in KNOWN_ASSETS
            bot0      == IF lastKnown THEN Join(SubStr(tokens, 1, Len(tokens) - 1)) ELSE cleaned
            is1HR     == Contains(UpperStr(bot0), s1HR) \/ Contains(bot0, <<"1","h","r">>)
            asset     == IF lastKnown THEN UpperStr(tokens[Len(tokens)])
                         ELSE IF cinfo.tag = "ContractInfo" THEN cinfo.asset ELSE sUNKNOWN
            timeframe == IF is1HR THEN s1HR
                         ELSE IF cinfo.tag = "ContractInfo" THEN cinfo.timeframe ELSE s15M
            bot1      == IF is1HR THEN Strip(Sub1HR(bot0)) ELSE bot0
            bot2      == SubStrayHyphens(bot1)
        IN  IF (~lastKnown \/ ~is1HR) /\ cinfo.tag = "raise"
            THEN [raised |-> TRUE]
            ELSE [raised    |-> FALSE,
                  bot_name  |-> IF bot2 = << >> THEN sUnknown ELSE bot2,
                  asset     |-> asset,
                  timeframe |-> timeframe]
        Cleaned(cleaned) == Resolved(cleaned, Split(cleaned), DecodeEmbedded(text))
    IN  Cleaned(CleanFirstLine(text))

(***************************************************************************)
(* _parse_message.  A message node div is a record                         *)
(*   [service, date, from_name, text]:                                     *)
(* service: "service" is among the classes; date: None when there is no    *)
(* date div, else <<title>>; from_name: None or <<sender>>; text: None     *)
(* when there is no text div, else <<raw_html>> (its decode_contents()).   *)
(***************************************************************************)
\* the side implied by the first SIGNAL_EMOJI key found in plain_text[:5]
InferSide(plain_text) ==
    LET hits == {e \in 1..Len(SIGNAL_EMOJI) :
                    Contains(FirstChars(plain_text), SIGNAL_EMOJI[e].emoji)}
    IN  IF hits = {} THEN None
        ELSE Some(SIGNAL_EMOJI[CHOOSE e \in hits : \A f \in hits : e <= f].side)

\* the glyph first, the keyword only without one
ExtractSide_glyph_first(plain_text) ==
    LET m == SearchFirst(plain_text, SideMatchAt)
    IN  IF InferSide(plain_text) # None THEN InferSide(plain_text)
        ELSE IF m.matched THEN Some(IF m.g1 = kwYES THEN "YES" ELSE "NO")
        ELSE None

\* explicit keyword first, else the glyph
ExtractSide(plain_text) ==
    LET m == SearchFirst(plain_text, SideMatchAt)
    IN  IF m.matched THEN Some(IF m.g1 = kwYES THEN "YES" ELSE "NO")
        ELSE InferSide(plain_text)

\* an optional int field
ExtractInt(plain_text, M(_, _)) ==
    LET m == SearchFirst(plain_text, M)
    IN  IF m.matched THEN Some(DigitsToInt(m.g1)) ELSE None

\* an optional currency field: [raised, value]
ExtractCurrency(plain_text, M(_, _)) ==
    LET m == SearchFirst(plain_text, M)
    IN  IF m.matched THEN parse_currency(m.g1) ELSE [raised |-> FALSE, value |-> None]

\* hurdle defaulted to 0.0 when the text has none
ExtractHurdle_default_zero(plain_text) ==
    [raised |-> FALSE, value |-> Some([num |-> 0, exp |-> 0])]

\* hurdle = float(group 1)
ExtractHurdle(plain_text) ==
    LET m == SearchFirst(plain_text, HurdleMatchAt)
    IN  IF m.matched THEN ParseFloat(m.g1) ELSE [raised |-> FALSE, value |-> None]

\* session triple: [raised, wins, losses, pnl]
ExtractSession(plain_text) ==
    LET Session(m, v) == [raised |-> v.raised,
                          wins   |-> Some(DigitsToInt(m.g1)),
                          losses |-> Some(DigitsToInt(m.g2)),
                          pnl    |-> v.value]
        Found(m) ==
            IF ~m.matched
            THEN [raised |-> FALSE, wins |-> None, losses |-> None, pnl |-> None]
            ELSE Session(m, parse_currency(m.g3))
    IN  Found(SearchFirst(plain_text, SessionMatchAt))

\* contract and contract_expiry: [raised, contract, expiry]
ExtractContract(plain_text) ==
    LET Decoded(m, cinfo) == [raised   |-> cinfo.tag = "raise",
                              contract |-> Some(m.g1),
                              expiry   |-> IF cinfo.tag = "ContractInfo"
                                           THEN Some(cinfo.expiry_time) ELSE None]
        Found(m) ==
            IF ~m.matched
            THEN [raised |-> FALSE, contract |-> None, expiry |-> None]
            ELSE Decoded(m, decode_contract(m.g1))
    IN  Found(SearchFirst(plain_text, ContractMatchAt))

\* the sender reported in place of the missing event
NoEvent_sender_as_event(sender) ==
    [raised |-> FALSE, event |-> IF sender = "" THEN None ELSE Some(sender),
     last_sender |-> sender]

NoEvent(sender) == [raised |-> FALSE, event |-> None, last_sender |-> sender]

\* the exception swallowed: the message is skipped
Raised_skipped(sender) == [raised |-> FALSE, event |-> None, last_sender |-> sender]

Raised(sender) == [raised |-> TRUE, event |-> None, last_sender |-> sender]

\* the kinds for which _parse_message returns None after classification
DiscardedKinds == {"None", "STARTUP"}

\* lines 263-365: the fields of the event for a classified message
BuildEvent(timestamp, event_type, plain_text, html_text, sender) ==
    LET Built(bot, gap, hurdle, exp_move, contract, strike, fills, net_pnl,
              session) ==
        IF \/ bot.raised \/ gap.raised \/ hurdle.raised \/ exp_move.raised
           \/ contract.raised \/ strike.raised \/ fills.raised
           \/ net_pnl.raised \/ session.raised
        THEN Raised(sender)
        ELSE [raised |-> FALSE,
              last_sender |-> sender,
              event |-> Some(
                [timestamp       |-> timestamp,
                 event_type      |-> event_type,
                 bot_name        |-> bot.bot_name,
                 asset           |-> bot.asset,
                 timeframe       |-> bot.timeframe,
                 contract        |-> contract.contract,
                 contract_expiry |-> contract.expiry,
                 side            |-> ExtractSide(plain_text),
                 tier            |-> ExtractInt(plain_text, TierMatchAt),
                 gap             |-> gap.value,
                 hurdle          |-> hurdle.value,
                 exp_move        |-> exp_move.value,
                 strike          |-> strike.value,
                 fills           |-> fills.fills,
                 net_pnl         |-> net_pnl.value,
                 session_wins    |-> session.wins,
                 session_losses  |-> session.losses,
                 session_pnl     |-> session.pnl,
                 flips           |-> ExtractInt(plain_text, FlipsMatchAt),
                 raw_text        |-> plain_text])]
    IN  Built(extract_bot_and_asset(plain_text),
              ExtractCurrency(plain_text, GapMatchAt),
              ExtractHurdle(plain_text),
              ExtractCurrency(plain_text, ExpMoveMatchAt),
              ExtractContract(plain_text),
              ExtractCurrency(plain_text, StrikeMatchAt),
              parse_fills(html_text),
              ExtractCurrency(plain_text, NetMatchAt),
              ExtractSession(plain_text))

\* the from_name div is looked at only while no sender is known
SenderAfter_first_only(div, prev_sender) ==
    IF prev_sender = "" /\ div.from_name # None THEN div.from_name[1]
    ELSE prev_sender

\* the sender carried on after the from_name div has been looked at
SenderAfter(div, prev_sender) ==
    IF div.from_name # None THEN div.from_name[1] ELSE prev_sender

\* result: [raised, event, last_sender]; raised stands for an exception
\* leaving _parse_message
parse_message(div, prev_sender) ==
    IF div.service THEN NoEvent(prev_sender)
    ELSE IF div.date = None THEN NoEvent(prev_sender)
    ELSE
    LET ts_match == TS_RE_search(div.date[1])
    IN  IF ~ts_match.matched THEN NoEvent(prev_sender)
        ELSE
        LET ts     == StrpTime(div.date[1], ts_match)
            sender == SenderAfter(div, prev_sender)
        IN  IF ts.raised THEN Raised(prev_sender)
            ELSE IF div.text = None THEN NoEvent(sender)
            ELSE
            LET Classified(plain_text, html_text, event_type) ==
                    IF event_type \in DiscardedKinds THEN NoEvent(sender)
                    ELSE BuildEvent(ts.value[1], event_type, plain_text,
                                    html_text, sender)
                Normalised(plain_text, html_text) ==
                    Classified(plain_text, html_text, classify_event(plain_text))
            IN  Normalised(PlainText(div.text[1]), HtmlText(div.text[1]))

(***************************************************************************)
(* _sort_html_files.  A file is named by the characters between "messages" *)
(* and ".html" (its glob match); stem.replace("messages", "") is modelled  *)
(* on that remainder.                                                      *)
(***************************************************************************)
\* int(num) raises ValueError unless num is a run of digits
IsNumeric(num) == num # << >> /\ \A k \in 1..Len(num) : IsDigit(num[k])

\* the key taken as text: "10" sorts before "2"
sort_key_as_text(num) ==
    IF num = << >> THEN 0
    ELSE 100 * (DigitVal(num[1]) + 1)
         + (IF Len(num) > 1 THEN DigitVal(num[2]) + 1 ELSE 0)

\* sort_key
sort_key(num) == IF num = << >> THEN 0 ELSE DigitsToInt(num)

SortKeyRaises(num) == num # << >> /\ ~IsNumeric(num)

RECURSIVE InsertByKey(_, _)
\* insert f after every element whose key is <= its own (stable)
InsertByKey(sorted, f) ==
    IF sorted = << >> THEN <<f>>
    ELSE IF sort_key(Head(sorted).num) <= sort_key(f.num)
         THEN <<Head(sorted)>> \o InsertByKey(Tail(sorted), f)
         ELSE <<f>> \o sorted

RECURSIVE SortedByKey(_)
\* sorted(files, key=sort_key): stable, ascending
SortedByKey(files) ==
    IF files = << >> THEN << >>
    ELSE InsertByKey(SortedByKey(SubStr(files, 1, Len(files) - 1)), files[Len(files)])

\* result: [raised, files]
sort_html_files(files) ==
    IF \E k \in 1..Len(files) : SortKeyRaises(files[k].num)
    THEN [raised |-> TRUE, files |-> << >>]
    ELSE [raised |-> FALSE, files |-> SortedByKey(files)]
(***************************************************************************)
(* Message nodes the documents are made of                                 *)
(***************************************************************************)
TitleFeb3 ==
    <<"0","3",".","0","2",".","2","0","2","6"," ","0","8",":","5","4",":","3",
      "2"," ","U","T","C","-","0","6",":","0","0">>

TitleFeb4 ==
    <<"0","4",".","0","2",".","2","0","2","6"," "," ","2","3",":","5","9",":",
      "5","9">>

TitleNoMatch ==
    <<"3",".","2",".","2","0","2","6"," ","8",":","5","4">>

TitleOutOfRange ==
    <<"3","1",".","0","2",".","2","0","2","6"," ","0","8",":","5","4",":","3",
      "2">>

HtmlSignal ==
    <<"RED"," ","F","e","r","n","y"," ","3",".","1"," ","B","T","C","<","b",
      "r",">","S","i","d","e",":"," ","Y","E","S","<","b","r",">","T","i","e",
      "r"," ","2">>

HtmlWin ==
    <<"<","b",">","W","I","N","<","/","b",">"," ","F","e","r","n","a","n","d",
      "o","-","O","G"," ","E","T","H","<","b","r","/",">","CHECK"," ","N","O",
      " ","2","0","@","9","0","CENT"," ","ARROW"," ","$","+","2",".","0","0",
      "<","b","r","/",">","N","e","t",":"," ","$","+","2",".","0","0">>

HtmlLoss ==
    <<"L","O","S","S"," ","F","e","r","n","y"," ","1","H","R"," ","S","O","L",
      "LF","CROSS"," ","Y","E","S"," ","8","3","@","2","c"," ","-",">"," ",
      "$","-","1",".","6","6","LF","S","e","s","s","i","o","n",":"," ","1",
      "W","-","2","L"," ","|"," ","$","-","4",".","0","0">>

HtmlJackpot ==
    <<"SLOT"," ","J","A","C","K","P","O","T"," ","W","I","N"," ","F","e","r",
      "n","y","<","b","r",">","C","o","n","t","r","a","c","t",":"," ","K","X",
      "X","R","P","D","-","2","6","F","E","B","0","3","1","0","1","5","-","1",
      "5">>

HtmlStartup ==
    <<"ROCKET"," ","F","e","r","n","y"," ","3",".","1"," ","S","t","a","r",
      "t","e","d","<","b","r",">","S","I","G","N","A","L"," ","r","e","a","d",
      "y">>

HtmlChatter ==
    <<"h","e","l","l","o"," ","t","h","e","r","e">>

HtmlBadNumeral ==
    <<"W","I","N"," ","F","e","r","n","y"," ","B","T","C","<","b","r",">","G",
      "a","p",":"," ","$","1",".","2",".","3">>

HtmlBadContract ==
    <<"S","I","G","N","A","L"," ","F","e","r","n","y","<","b","r",">","C","o",
      "n","t","r","a","c","t",":"," ","K","X","B","T","C","1","5","M","-","2",
      "6","F","E","B","3","2","1","0","1","5","-","1","5">>

Div(service, date, from_name, text) ==
    [service |-> service, date |-> date, from_name |-> from_name, text |-> text]

Senders == {"Ferny Bots", "Fernando"}

ServiceDiv    == Div(TRUE,  Some(TitleFeb3),       Some("Fernando"),   Some(HtmlWin))
NoDateDiv     == Div(FALSE, None,                  Some("Fernando"),   Some(HtmlWin))
NoMatchDiv    == Div(FALSE, Some(TitleNoMatch),    Some("Fernando"),   Some(HtmlSignal))
BadDateDiv    == Div(FALSE, Some(TitleOutOfRange), None,               Some(HtmlSignal))
NoTextDiv     == Div(FALSE, Some(TitleFeb3),       Some("Ferny Bots"), None)
StartupDiv    == Div(FALSE, Some(TitleFeb3),       Some("Fernando"),   Some(HtmlStartup))
ChatterDiv    == Div(FALSE, Some(TitleFeb3),       None,               Some(HtmlChatter))
SignalDiv     == Div(FALSE, Some(TitleFeb3),       Some("Ferny Bots"), Some(HtmlSignal))
WinDiv        == Div(FALSE, Some(TitleFeb4),       None,               Some(HtmlWin))
LossDiv       == Div(FALSE, Some(TitleFeb4),       Some("Fernando"),   Some(HtmlLoss))
JackpotDiv    == Div(FALSE, Some(TitleFeb3),       None,               Some(HtmlJackpot))
BadNumeralDiv == Div(FALSE, Some(TitleFeb3),       Some("Fernando"),   Some(HtmlBadNumeral))
BadContractDiv == Div(FALSE, Some(TitleFeb4),      None,               Some(HtmlBadContract))

\* the message divs of a document, in document order
Documents ==
    { <<SignalDiv, WinDiv>>,
      <<WinDiv, LossDiv, JackpotDiv>>,
      <<ServiceDiv, NoDateDiv, NoMatchDiv, NoTextDiv, StartupDiv, ChatterDiv>>,
      <<LossDiv, BadNumeralDiv>>,
      <<BadDateDiv>>,
      <<JackpotDiv, BadContractDiv, SignalDiv>> }

WalkerDivs == UNION { {doc[k] : k \in 1..Len(doc)} : doc \in Documents }

\* the values the carried sender takes
SenderValues == Senders \cup {""}

\* _parse_message on every div and carried sender of the documents
ParseTable ==
    [d \in WalkerDivs, s \in SenderValues |-> parse_message(d, s)]

(***************************************************************************)
(* HTMLMessageSource.get_events (the Export Walker)                        *)
(***************************************************************************)
MaxFiles == 2

\* the part of each file name between "messages" and ".html", with the
\* ordinal it stands for (-1: not a number)
FileNames ==
    { [num |-> << >>,               ord |-> 0],
      [num |-> <<"2">>,             ord |-> 2],
      [num |-> <<"1","0">>,         ord |-> 10],
      [num |-> <<"_","o","l","d">>, ord |-> 0 - 1] }

\* a file: its name and the message divs the document reader finds in it
Files == { [num |-> n.num, ord |-> n.ord, msgs |-> doc] :
              n \in FileNames, doc \in Documents }

RECURSIVE FileLists(_)
\* the lists of at most n files with distinct names
FileLists(n) ==
    IF n = 0 THEN { << >> }
    ELSE LET shorter == FileLists(n - 1)
             pairs   == {p \in shorter \X Files :
                            /\ Len(p[1]) = n - 1
                            /\ \A k \in 1..Len(p[1]) : p[1][k].num # p[2].num}
         IN  shorter \cup {Append(p[1], p[2]) : p \in pairs}

TargetDates == { None, Some([year |-> 2026, month |-> 2, day |-> 3]) }

IsNone(x) == Len(x) = 0

\* no filter at all
DateFilter_all(date, event) == TRUE

\* "target_date is None or event.timestamp.date() == target_date"
DateFilter(date, event) == IsNone(date) \/ DateOf(event.timestamp) = date[1]

\* the carried sender re-initialised for every file
SenderAtFileStart_reset(carried) == ""

\* last_sender is assigned "" once, before the loop over the files, so the
\* value a file starts with is the value the previous file ended with
SenderAtFileStart(carried) == carried

\* all_events.append(event)
AppendEvent(events, event) == Append(events, event)

Init ==
    /\ pc = "start"
    /\ exc = ""
    /\ sample = None
    /\ input = None
    /\ output = None
    /\ glob_files \in FileLists(MaxFiles)
    /\ target_date \in TargetDates
    /\ html_files = << >>
    /\ file_idx = 0
    /\ msg_idx = 0
    /\ last_sender = ""
    /\ all_events = << >>
    /\ origins = << >>
    /\ prev_doc_sender = ""
    /\ effects = << >>

\* lines 384-392: glob, the empty check, the sort, the two initialisations
GetEventsStart ==
    /\ pc = "start"
    /\ IF glob_files = << >>
       THEN /\ pc' = "raised"
            /\ exc' = "FileNotFoundError"
            /\ UNCHANGED <<html_files, file_idx>>
       ELSE LET r == sort_html_files(glob_files)
            IN  IF r.raised
                THEN /\ pc' = "raised"
                     /\ exc' = "ValueError"
                     /\ UNCHANGED <<html_files, file_idx>>
                ELSE /\ pc' = "loop"
                     /\ exc' = ""
                     /\ html_files' = r.files
                     /\ file_idx' = 1
    /\ msg_idx' = 0
    /\ last_sender' = ""
    /\ all_events' = << >>
    /\ UNCHANGED <<sample, input, output, glob_files, target_date, origins,
                   prev_doc_sender,
                   effects>>

\* lines 398-402: one iteration of the loop over the message divs
ParseMessage ==
    /\ pc = "loop"
    /\ file_idx <= Len(html_files)
    /\ msg_idx < Len(html_files[file_idx].msgs)
    /\ input' = Some(html_files[file_idx].msgs[msg_idx + 1])
    /\ output' = Some(ParseTable[input'[1], last_sender])
    /\ LET r == output'[1]
       IN  /\ IF r.raised
              THEN /\ pc' = "raised"
                   /\ exc' = "ValueError"
                   /\ UNCHANGED <<msg_idx, last_sender, all_events, origins>>
              ELSE /\ msg_idx' = msg_idx + 1
                   /\ last_sender' = r.last_sender
                   /\ IF ~IsNone(r.event) /\ DateFilter(target_date, r.event[1])
                      THEN /\ all_events' = AppendEvent(all_events, r.event[1])
                           /\ origins' = Append(origins,
                                  [file |-> file_idx, msg |-> msg_idx + 1,
                                   event |-> r.event[1]])
                      ELSE UNCHANGED <<all_events, origins>>
                   /\ UNCHANGED <<pc, exc>>
    /\ UNCHANGED <<sample, glob_files, target_date, html_files, file_idx,
                   prev_doc_sender,
                   effects>>

\* the message divs of the current file are exhausted: on to the next file
EndOfFile ==
    /\ pc = "loop"
    /\ file_idx <= Len(html_files)
    /\ msg_idx = Len(html_files[file_idx].msgs)
    /\ file_idx' = file_idx + 1
    /\ msg_idx' = 0
    /\ prev_doc_sender' = last_sender
    /\ last_sender' = SenderAtFileStart(last_sender)
    /\ UNCHANGED <<pc, exc, sample, input, output, glob_files, target_date,
                   html_files, all_events, origins, effects>>

\* line 404: return all_events
Return ==
    /\ pc = "loop"
    /\ file_idx > Len(html_files)
    /\ pc' = "done"
    /\ UNCHANGED <<exc, sample, input, output, walker_vars>>

Next ==
    \/ GetEventsStart
    \/ ParseMessage
    \/ EndOfFile
    \/ Return

Spec == Init /\ [][Next]_vars

(***************************************************************************)
(* Properties of the Export Walker                                         *)
(***************************************************************************)
EmittedKinds == {"SIGNAL", "WIN", "LOSS", "JACKPOT"}

\* the title of the date div holds a timestamp that is a real date and time
HasDecodableTimestamp(div) ==
    /\ ~IsNone(div.date)
    /\ TS_RE_search(div.date[1]).matched
    /\ ~StrpTime(div.date[1], TS_RE_search(div.date[1])).raised

\* the node is one the parser is to turn into an event
Eligible(div) ==
    /\ ~div.service
    /\ HasDecodableTimestamp(div)
    /\ ~IsNone(div.text)
    /\ classify_event(PlainText(div.text[1])) \in EmittedKinds

\* C1: the message parser yields an event exactly when the node is not a
\* service node, has a decodable timestamp, has a text body and classifies as
\* SIGNAL, WIN, LOSS or JACKPOT; in every other case it yields no event and
\* does not raise; the walker's output holds only those four kinds.
C1_EventIffEligibleNeverRaises ==
    /\ \A k \in 1..Len(all_events) : all_events[k].event_type \in EmittedKinds
    /\ (pc \in {"loop", "raised", "done"} /\ ~IsNone(input))
          => /\ ~output[1].raised
             /\ ~IsNone(output[1].event) <=> Eligible(input[1])

\* the divs of the files before position n of the sorted list, in order
RECURSIVE DivsBefore(_, _)
DivsBefore(fs, n) ==
    IF n <= 1 THEN << >> ELSE DivsBefore(fs, n - 1) \o fs[n - 1].msgs

\* whether the node sets the carried sender, from the fields of the node
SetsSender(div) ==
    /\ ~div.service
    /\ ~IsNone(div.date)
    /\ TS_RE_search(div.date[1]).matched
    /\ ~IsNone(div.from_name)

RECURSIVE LastSenderSet(_)
\* the last sender set by a sequence of divs, "" if none was
LastSenderSet(divs) ==
    IF divs = << >> THEN ""
    ELSE IF SetsSender(divs[Len(divs)]) THEN divs[Len(divs)].from_name[1]
         ELSE LastSenderSet(SubStr(divs, 1, Len(divs) - 1))

\* C2: the sender carried into the first message of a later document, and out
\* of it when that message has no sender, is the last sender set while the
\* preceding documents were processed.
C2_SenderCarriedAcrossDocuments ==
    (pc = "loop" /\ file_idx >= 2 /\ file_idx <= Len(html_files))
       => /\ msg_idx = 0 => last_sender = LastSenderSet(DivsBefore(html_files, file_idx))
          /\ (/\ msg_idx = 1
              /\ IsNone(html_files[file_idx].msgs[1].from_name))
                => last_sender = LastSenderSet(DivsBefore(html_files, file_idx))

\* a second document whose first message has no sender has been entered and
\* that message processed, with a sender carried over from the first
C2_Witness ==
    /\ pc = "loop"
    /\ file_idx = 2
    /\ msg_idx = 1
    /\ IsNone(html_files[2].msgs[1].from_name)
    /\ ~IsNone(output[1].event)
    /\ last_sender \in Senders
    /\ last_sender = prev_doc_sender

Range(f) == {f[k] : k \in 1..Len(f)}

OriginBefore(a, b) == a.file < b.file \/ (a.file = b.file /\ a.msg < b.msg)

\* C3: the documents are processed in ascending order of their numeric
\* suffix (none = 0; 10 after 2), the messages in document order, and the
\* output is in that order with at most one event per message.
C3_DocumentAndMessageOrder ==
    pc \in {"loop", "done"}
       => /\ Len(html_files) = Len(glob_files)
          /\ Range(html_files) = Range(glob_files)
          /\ \A i, j \in 1..Len(html_files) :
                i < j => html_files[i].ord < html_files[j].ord
          /\ Len(all_events) = Len(origins)
          /\ \A k \in 1..Len(origins) :
                /\ all_events[k] = origins[k].event
                /\ origins[k].file <= Len(html_files)
                /\ origins[k].msg <= Len(html_files[origins[k].file].msgs)
                /\ ~IsNone(ParseTable[html_files[origins[k].file].msgs[origins[k].msg],
                                      ""].event)
          /\ \A k, l \in 1..Len(origins) :
                k < l => OriginBefore(origins[k], origins[l])

\* files discovered as 10 before 2 have been walked as 2 then 10, and both
\* gave events
C3_Witness ==
    /\ pc = "done"
    /\ Len(glob_files) = 2
    /\ glob_files[1].ord = 10
    /\ glob_files[2].ord = 2
    /\ html_files[1].ord = 2
    /\ Len(all_events) >= 3
    /\ origins[1].file = 1
    /\ origins[Len(origins)].file = 2

(***************************************************************************)
(* The functions applied to drawn inputs.  In these specifications the     *)
(* walker does not run.                                                    *)
(***************************************************************************)
IdleWalker ==
    /\ exc = ""
    /\ glob_files = << >>
    /\ target_date = None
    /\ html_files = << >>
    /\ file_idx = 0
    /\ msg_idx = 0
    /\ last_sender = ""
    /\ all_events = << >>
    /\ origins = << >>
    /\ prev_doc_sender = ""
    /\ effects = << >>

(***************************************************************************)
(* _classify_event on texts made of a lead, words and a tail               *)
(***************************************************************************)
MaxWords == 2

\* what a text starts with
LeadPieces ==
    { << >>,
      <<"RED"," ">>,
      <<"DOWN","VS16"," ">>,
      <<"SLOT"," ">>,
      <<"x","x","x","x","UP"," ">>,
      <<"x","x","x","x","x","UP"," ">> }

\* the words of the body
WordPieces ==
    { << >>,
      <<"J","A","C","K","P","O","T">>,
      <<"j","a","c","k","p","o","t">>,
      <<"P","A","R","T","I","A","L"," ","L","O","S","S">>,
      <<"P","A","R","T","I","A","L"," ","W","I","N">>,
      <<"L","O","S","S">>,
      <<"W","I","N">>,
      <<"W","I","N","N","E","R">>,
      <<"w","i","n">>,
      <<"F","L","I","P"," ","S","I","G","N","A","L">>,
      <<"S","I","G","N","A","L">>,
      <<"F","e","r","n","y">> }

\* what a text ends with
TailPieces ==
    { << >>,
      <<" ","S","t","a","r","t","e","d"," ","ROCKET">>,
      <<" ","S","t","a","r","t","e","d">>,
      <<" ","ROCKET">> }

RECURSIVE WordTexts(_)
\* the bodies of exactly n words, each followed by a space
WordTexts(n) ==
    IF n = 0 THEN { << >> }
    ELSE { w \o <<" ">> \o rest : w \in WordPieces, rest \in WordTexts(n - 1) }

ClassifyTexts ==
    { Strip(l \o b \o t) : l \in LeadPieces, b \in WordTexts(MaxWords), t \in TailPieces }

InitClassify ==
    /\ pc = "classify"
    /\ sample = None
    /\ input \in { Some(t) : t \in ClassifyTexts }
    /\ output = None
    /\ IdleWalker

\* event_type = _classify_event(plain_text)
Classify ==
    /\ pc = "classify"
    /\ pc' = "classified"
    /\ output' = Some(classify_event(input[1]))
    /\ UNCHANGED <<exc, sample, input, walker_vars>>

NextClassify == Classify

SpecClassify == InitClassify /\ [][NextClassify]_vars

(***************************************************************************)
(* Properties of the Event Classifier                                      *)
(***************************************************************************)
\* the startup keyword and the rocket both occur somewhere in the text
IsStartupText(t) ==
    /\ \E i \in 1..Len(t) : t[i] = "ROCKET"
    /\ \E i \in 1..Len(t) :
          \A k \in 1..7 : i + k - 1 <= Len(t) /\ t[i + k - 1] = kwStarted[k]

\* one of the glyphs G is among the first five characters
LeadsWith(t, G) == \E i \in 1..5 : i <= Len(t) /\ t[i] \in G

\* the glyphs of SIGNAL_EMOJI without their variation selector
SignalGlyphs == {"RED", "GREEN", "DOWN", "UP"}

\* the two arrows, the only glyphs that have a variation-selector form
ArrowGlyphs == {"DOWN", "UP"}

\* the kind each rule of the priority list stands for
RuleKind(r) ==
    CASE r = 1 -> "JACKPOT"
      [] r \in {2, 4} -> "LOSS"
      [] r \in {3, 5} -> "WIN"
      [] r \in {6, 7} -> "SIGNAL"

MatchingRules(t) == {r \in 1..7 : PatternMatches(r, t)}

IsFirstMatch(r, t) == r \in MatchingRules(t) /\ \A q \in MatchingRules(t) : r <= q

C6_StartupShortCircuits ==
    (pc = "classified" /\ IsStartupText(input[1])) => output[1] = "STARTUP"

\* a glyph-led text with the JACKPOT keyword, the startup keyword and the
\* rocket has been classified STARTUP
C6_Witness ==
    /\ pc = "classified"
    /\ IsStartupText(input[1])
    /\ LeadsWith(input[1], SignalGlyphs)
    /\ 1 \in MatchingRules(input[1])
    /\ output[1] = "STARTUP"

\* C7: a text that is not STARTUP and has a directional glyph among its
\* first five characters gets the kind of the first matching keyword rule,
\* and SIGNAL when no keyword rule matches.
C7_GlyphLedKeywordElseSignal ==
    (pc = "classified" /\ ~IsStartupText(input[1]) /\ LeadsWith(input[1], SignalGlyphs))
       => LET t == input[1]
              kind == output[1]
          IN  /\ \A r \in 1..7 : IsFirstMatch(r, t) => kind = RuleKind(r)
              /\ MatchingRules(t) = {} => kind = "SIGNAL"

\* an arrow-led text with the keywords WIN and SIGNAL has been classified WIN
C7_Witness ==
    /\ pc = "classified"
    /\ ~IsStartupText(input[1])
    /\ LeadsWith(input[1], ArrowGlyphs)
    /\ MatchingRules(input[1]) = {5, 7}
    /\ output[1] = "WIN"

\* C8 as stated: only the two arrows (with or without variation selector) in
\* the first five characters make a text glyph-led; a text without startup
\* pair, without such an arrow there and without keyword match is no event.
C8_OnlyArrowsAreGlyphLed ==
    (/\ pc = "classified"
     /\ ~IsStartupText(input[1])
     /\ ~LeadsWith(input[1], ArrowGlyphs)
     /\ MatchingRules(input[1]) = {})
       => output[1] = "None"

\* C8 amended: the glyphs that make a text glyph-led are the four keys of
\* SIGNAL_EMOJI (red circle, green circle, down arrow, up arrow) in the
\* first five characters; without startup pair, without one of them there
\* and without keyword match the text is no event.
C8_OnlySignalGlyphsAreGlyphLed ==
    (/\ pc = "classified"
     /\ ~IsStartupText(input[1])
     /\ ~LeadsWith(input[1], SignalGlyphs)
     /\ MatchingRules(input[1]) = {})
       => output[1] = "None"

\* a text whose arrow is its sixth character, with no keyword, is no event
C8_Witness ==
    /\ pc = "classified"
    /\ ~IsStartupText(input[1])
    /\ Len(input[1]) >= 6
    /\ input[1][6] \in ArrowGlyphs
    /\ ~LeadsWith(input[1], SignalGlyphs)
    /\ MatchingRules(input[1]) = {}
    /\ output[1] = "None"

(***************************************************************************)
(* decode_contract on identifiers made of parts                            *)
(***************************************************************************)
\* the fixed prefix, and a wrong one
IdPrefixes ==
    { <<"K","X">>,
      <<"K">> }

\* asset codes
IdAssets ==
    { <<"B","T","C">>,
      <<"D">>,
      << >> }

\* timeframe tokens, the last one not in the grammar
IdTimeframes ==
    { <<"1","5","M">>,
      <<"D">>,
      <<"H">> }

\* two-digit year suffixes
IdYears ==
    { <<"2","6">>,
      <<"0","0">> }

\* month abbreviations, the last one not in MONTH_MAP
IdMonths ==
    { <<"F","E","B">>,
      <<"D","E","C">>,
      <<"X","X","X">> }

\* day digits
IdDays ==
    { <<"0","3">>,
      <<"2","9">>,
      <<"3","1">>,
      <<"0","0">> }

\* hour and minute digits
IdHourMinutes ==
    { <<"1","0","1","5">>,
      <<"2","4","0","0">>,
      <<"2","3","6","0">> }

\* second digits, the last one too short
IdSeconds ==
    { <<"1","5">>,
      <<"3","0">>,
      <<"6","0">>,
      <<"5">> }

\* the identifier written from its parts
ContractIdText(c) ==
    c.prefix \o c.asset \o c.tf \o <<"-">> \o c.yy \o c.mon \o c.dd \o c.hhmm
             \o <<"-">> \o c.ss

ContractSamples ==
    [prefix : IdPrefixes, asset : IdAssets, tf : IdTimeframes, yy : IdYears,
     mon : IdMonths, dd : IdDays, hhmm : IdHourMinutes, ss : IdSeconds]

InitDecode ==
    /\ pc = "decode"
    /\ sample \in { Some(c) : c \in ContractSamples }
    /\ input = Some(ContractIdText(sample[1]))
    /\ output = None
    /\ IdleWalker

\* cinfo = decode_contract(contract)
Decode ==
    /\ pc = "decode"
    /\ pc' = "decoded"
    /\ output' = Some(decode_contract(input[1]))
    /\ UNCHANGED <<exc, sample, input, walker_vars>>

NextDecode == Decode

SpecDecode == InitDecode /\ [][NextDecode]_vars

ContractInfoFields == {"tag", "asset", "timeframe", "date", "expiry_time", "raw"}

\* C4: decode_contract is total: for every string it returns a fully
\* populated ContractInfo or absence, and never raises, also when the digit
\* groups match the grammar but are out of calendar range.
C4_DecodeIsTotal ==
    pc = "decoded"
       => \/ output[1].tag = "None"
          \/ /\ output[1].tag = "ContractInfo"
             /\ DOMAIN output[1] = ContractInfoFields

(***************************************************************************)
(* Fill lines written from their parts                                     *)
(***************************************************************************)
MaxFillLines == 2

\* what follows the glyph: side, quantity, price, cent spelling and amount,
\* with the numbers they stand for
FillBodies ==
    { [side |-> "NO", qty |-> <<"2","0">>, quantity |-> 20,
       price |-> <<"9","0">>, price_cents |-> 90, cent |-> "CENT",
       amount |-> <<"+","2",".","0","0">>, pnl |-> [num |-> 2, exp |-> 0]],
      [side |-> "YES", qty |-> <<"8","3">>, quantity |-> 83,
       price |-> <<"2">>, price_cents |-> 2, cent |-> "c",
       amount |-> <<"-","1",".","6","6">>, pnl |-> [num |-> 0 - 166, exp |-> 2]],
      [side |-> "NO", qty |-> <<"5">>, quantity |-> 5,
       price |-> <<"1","0","0">>, price_cents |-> 100, cent |-> "CENT",
       amount |-> <<"1",",","2","3","4",".","5">>, pnl |-> [num |-> 12345, exp |-> 1]] }

FillGlyphs == {"CHECK", "CROSS"}

UnicodeArrow == <<"ARROW">>
AsciiArrow   == <<"-", ">">>
EscapedGt    == <<"&", "g", "t", ";">>
EscapedAsciiArrow == <<"-", "&", "g", "t", ";">>

\* a fill line: its glyph, its arrow spelling and its body
FillLines(arrows) == [glyph : FillGlyphs, arrow : arrows, body : FillBodies]

\* "{glyph} {SIDE} {qty}@{price}{cent} {arrow} ${amount}"
FillLineText(l) ==
    <<l.glyph, " ">> \o (IF l.body.side = "YES" THEN kwYES ELSE kwNO) \o <<" ">>
        \o l.body.qty \o <<"@">> \o l.body.price \o <<l.body.cent, " ">>
        \o l.arrow \o <<" ", "$">> \o l.body.amount

\* the Fill a line stands for
FillOf(l) ==
    [side        |-> l.body.side,
     quantity    |-> l.body.quantity,
     price_cents |-> l.body.price_cents,
     pnl         |-> l.body.pnl,
     is_win      |-> l.glyph = "CHECK"]

RECURSIVE LineSeqs(_, _)
\* the sequences of 1 to n lines
LineSeqs(lines, n) ==
    IF n = 0 THEN { }
    ELSE LET shorter == LineSeqs(lines, n - 1)
         IN  shorter \cup { <<l>> : l \in lines }
                     \cup { Append(q, l) : q \in {x \in shorter : Len(x) = n - 1},
                                           l \in lines }

RECURSIVE JoinLines(_, _)
\* the texts of the lines joined by sep
JoinLines(ls, sep) ==
    IF ls = << >> THEN << >>
    ELSE IF Len(ls) = 1 THEN FillLineText(ls[1])
         ELSE FillLineText(ls[1]) \o sep \o JoinLines(Tail(ls), sep)

(***************************************************************************)
(* _parse_fills on texts of fill lines                                     *)
(***************************************************************************)
FillSamples == LineSeqs(FillLines({UnicodeArrow, AsciiArrow, EscapedGt}), MaxFillLines)

InitFills ==
    /\ pc = "fills"
    /\ sample \in { Some(ls) : ls \in FillSamples }
    /\ input = Some(JoinLines(sample[1], <<"LF">>))
    /\ output = None
    /\ IdleWalker

\* fills = _parse_fills(html_text)
ParseFills ==
    /\ pc = "fills"
    /\ pc' = "fills_parsed"
    /\ output' = Some(parse_fills(input[1]))
    /\ UNCHANGED <<exc, sample, input, walker_vars>>

NextFills == ParseFills

SpecFills == InitFills /\ [][NextFills]_vars

\* C10: the win flag of every Fill is true exactly when its line is led by
\* the success glyph, whatever the sign of the amount, and the amount is
\* kept with its sign.
C10_WinFlagFromGlyph ==
    pc = "fills_parsed"
       => /\ ~output[1].raised
          /\ Len(output[1].fills) = Len(sample[1])
          /\ \A k \in 1..Len(sample[1]) :
                /\ output[1].fills[k].is_win = (sample[1][k].glyph = "CHECK")
                /\ output[1].fills[k].pnl = sample[1][k].body.pnl

\* a line led by the success glyph with a negative amount gave a Fill with
\* win = true and the negative pnl
C10_Witness ==
    /\ pc = "fills_parsed"
    /\ \E k \in 1..Len(output[1].fills) :
          /\ sample[1][k].glyph = "CHECK"
          /\ output[1].fills[k].is_win
          /\ output[1].fills[k].pnl.num < 0

(***************************************************************************)
(* _parse_message on single message nodes                                  *)
(***************************************************************************)
HeadWin ==
    <<"<","b",">","W","I","N","<","/","b",">"," ","F","e","r","n","y"," ","3",
      ".","1"," ","B","T","C">>

HeadLoss ==
    <<"L","O","S","S"," ","F","e","r","n","a","n","d","o","-","O","G"," ","E",
      "T","H">>


\* an outcome message: a first line and fill lines, separated by <br>
FillMessages ==
    [head : {HeadWin, HeadLoss},
     lines : LineSeqs(FillLines({UnicodeArrow, AsciiArrow, EscapedAsciiArrow}),
                      MaxFillLines)]

\* the node of an outcome message
FillMessageDiv(m) ==
    Div(FALSE, Some(TitleFeb3), Some("Fernando"),
        Some(m.head \o BR1 \o JoinLines(m.lines, BR1)))

InitMessage ==
    /\ pc = "parse"
    /\ sample \in { Some(m) : m \in FillMessages }
    /\ input = Some(FillMessageDiv(sample[1]))
    /\ output = None
    /\ last_sender \in SenderValues
    /\ exc = ""
    /\ glob_files = << >>
    /\ target_date = None
    /\ html_files = << >>
    /\ file_idx = 0
    /\ msg_idx = 0
    /\ all_events = << >>
    /\ origins = << >>
    /\ prev_doc_sender = ""
    /\ effects = << >>

\* event, last_sender = _parse_message(div, last_sender)
ParseOne ==
    /\ pc = "parse"
    /\ output' = Some(parse_message(input[1], last_sender))
    /\ LET r == output'[1]
       IN  IF r.raised
           THEN pc' = "raised" /\ exc' = "ValueError" /\ UNCHANGED last_sender
           ELSE pc' = "parsed" /\ exc' = "" /\ last_sender' = r.last_sender
    /\ UNCHANGED <<sample, input, glob_files, target_date, html_files, file_idx,
                   msg_idx, all_events, origins, prev_doc_sender,
                   effects>>

NextMessage == ParseOne

SpecMessage == InitMessage /\ [][NextMessage]_vars

\* C9: the event of a message with well-formed fill lines has exactly one
\* Fill per line, in line order, for the unicode arrow, the ASCII arrow and
\* the ASCII arrow whose ">" is HTML-escaped.
C9_OneFillPerLine ==
    pc \in {"parsed", "raised"}
       => /\ ~output[1].raised
          /\ ~IsNone(output[1].event)
          /\ Len(output[1].event[1].fills) = Len(sample[1].lines)
          /\ \A k \in 1..Len(sample[1].lines) :
                output[1].event[1].fills[k] = FillOf(sample[1].lines[k])

(***************************************************************************)
(* _parse_message on messages made of a first line and field lines         *)
(***************************************************************************)
MaxFieldLines == 2

\* the field lines, with what each one states: kind "value" is a value
\* the extractor matches (num / 10^exp, or w wins and l losses, or YES = 1),
\* "none" a line the extractor does not match, "malformed" a numeral it
\* matches that is no number, "undecoded" a contract id outside the
\* identifier grammar
FieldLines ==
    <<
      [field |-> "side", kind |-> "value", num |-> 1, exp |-> 0, w |-> 0, l |-> 0,
       text |->
          <<"S","i","d","e",":"," ","Y","E","S">>],
      [field |-> "side", kind |-> "value", num |-> 0, exp |-> 0, w |-> 0, l |-> 0,
       text |->
          <<"S","i","d","e",":"," ","N","O">>],
      [field |-> "tier", kind |-> "value", num |-> 2, exp |-> 0, w |-> 0, l |-> 0,
       text |->
          <<"T","i","e","r"," ","2">>],
      [field |-> "tier", kind |-> "value", num |-> 0, exp |-> 0, w |-> 0, l |-> 0,
       text |->
          <<"T","i","e","r"," ","0">>],
      [field |-> "gap", kind |-> "value", num |-> 123456, exp |-> 2, w |-> 0, l |-> 0,
       text |->
          <<"G","a","p",":"," ","$","+","1",",","2","3","4",".","5","6">>],
      [field |-> "gap", kind |-> "value", num |-> 0 - 4, exp |-> 0, w |-> 0, l |-> 0,
       text |->
          <<"G","a","p",":"," ","$","-","4",".","0","0">>],
      [field |-> "gap", kind |-> "value", num |-> 0, exp |-> 0, w |-> 0, l |-> 0,
       text |->
          <<"G","a","p",":"," ","$","0",".","0","0">>],
      [field |-> "gap", kind |-> "none", num |-> 0, exp |-> 0, w |-> 0, l |-> 0,
       text |->
          <<"G","a","p",":"," ","N","/","A">>],
      [field |-> "gap", kind |-> "malformed", num |-> 0, exp |-> 0, w |-> 0, l |-> 0,
       text |->
          <<"G","a","p",":"," ","$","1",".","2",".","3">>],
      [field |-> "gap", kind |-> "malformed", num |-> 0, exp |-> 0, w |-> 0, l |-> 0,
       text |->
          <<"G","a","p",":"," ","$",",",",">>],
      [field |-> "hurdle", kind |-> "value", num |-> 15, exp |-> 1, w |-> 0, l |-> 0,
       text |->
          <<"H","u","r","d","l","e",":"," ","1",".","5","x">>],
      [field |-> "hurdle", kind |-> "value", num |-> 0, exp |-> 0, w |-> 0, l |-> 0,
       text |->
          <<"H","u","r","d","l","e",":"," ","0","x">>],
      [field |-> "hurdle", kind |-> "malformed", num |-> 0, exp |-> 0, w |-> 0, l |-> 0,
       text |->
          <<"H","u","r","d","l","e",":"," ","1",".","2",".","3","x">>],
      [field |-> "exp_move", kind |-> "value", num |-> 125, exp |-> 1, w |-> 0, l |-> 0,
       text |->
          <<"E","x","p","M","o","v","e",":"," ","$","1","2",".","5","0">>],
      [field |-> "exp_move", kind |-> "value", num |-> 0, exp |-> 0, w |-> 0, l |-> 0,
       text |->
          <<"E","x","p","M","o","v","e",":"," ","$","0">>],
      [field |-> "exp_move", kind |-> "none", num |-> 0, exp |-> 0, w |-> 0, l |-> 0,
       text |->
          <<"E","x","p","M","o","v","e",":"," ","N","/","A">>],
      [field |-> "contract", kind |-> "value", num |-> 0, exp |-> 0, w |-> 0, l |-> 0,
       text |->
          <<"C","o","n","t","r","a","c","t",":"," ","K","X","B","T","C","1",
            "5","M","-","2","6","F","E","B","0","3","1","0","1","5","-","1",
            "5">>],
      [field |-> "contract", kind |-> "undecoded", num |-> 0, exp |-> 0, w |-> 0, l |-> 0,
       text |->
          <<"C","o","n","t","r","a","c","t",":"," ","K","X","B","T","C","-",
            "2","6","F","E","B","0","3","-","1","5">>],
      [field |-> "strike", kind |-> "value", num |-> 97500, exp |-> 0, w |-> 0, l |-> 0,
       text |->
          <<"S","t","r","i","k","e",":"," ","9","7",",","5","0","0",".","0",
            "0">>],
      [field |-> "strike", kind |-> "none", num |-> 0, exp |-> 0, w |-> 0, l |-> 0,
       text |->
          <<"S","t","r","i","k","e",":"," ","N","/","A">>],
      [field |-> "strike", kind |-> "malformed", num |-> 0, exp |-> 0, w |-> 0, l |-> 0,
       text |->
          <<"S","t","r","i","k","e",":"," ","1",".","2",".","3">>],
      [field |-> "net_pnl", kind |-> "value", num |-> 0 - 4, exp |-> 0, w |-> 0, l |-> 0,
       text |->
          <<"N","e","t",":"," ","$","-","4",".","0","0">>],
      [field |-> "net_pnl", kind |-> "value", num |-> 123456, exp |-> 2, w |-> 0, l |-> 0,
       text |->
          <<"N","e","t",":"," ","$","+","1",",","2","3","4",".","5","6">>],
      [field |-> "net_pnl", kind |-> "none", num |-> 0, exp |-> 0, w |-> 0, l |-> 0,
       text |->
          <<"N","e","t",":"," ","N","/","A">>],
      [field |-> "session", kind |-> "value", num |-> 5, exp |-> 0, w |-> 3, l |-> 1,
       text |->
          <<"S","e","s","s","i","o","n",":"," ","3","W","-","1","L"," ","|",
            " ","$","+","5",".","0","0">>],
      [field |-> "session", kind |-> "value", num |-> 0, exp |-> 0, w |-> 0, l |-> 0,
       text |->
          <<"S","e","s","s","i","o","n",":"," ","0","W","-","0","L"," ","|",
            " ","$","0",".","0","0">>],
      [field |-> "session", kind |-> "none", num |-> 0, exp |-> 0, w |-> 2, l |-> 1,
       text |->
          <<"S","e","s","s","i","o","n",":"," ","2","W","-","1","L"," ","|",
            " ","N","/","A">>],
      [field |-> "session", kind |-> "malformed", num |-> 0, exp |-> 0, w |-> 1, l |-> 0,
       text |->
          <<"S","e","s","s","i","o","n",":"," ","1","W","-","0","L"," ","|",
            " ","$","1",".","2",".","3">>],
      [field |-> "flips", kind |-> "value", num |-> 3, exp |-> 0, w |-> 0, l |-> 0,
       text |->
          <<"F","l","i","p","s",":"," ","3">>],
      [field |-> "flips", kind |-> "value", num |-> 0, exp |-> 0, w |-> 0, l |-> 0,
       text |->
          <<"F","l","i","p","s",":"," ","0">>]
    >>

\* the first lines: the glyphs within the first five characters ("arrow",
\* "circle", "both" or "none") and the side the glyph table gives
FieldHeads ==
    {
      [glyphs |-> "none", side |-> "none",
       text |->
          <<"S","I","G","N","A","L"," ","F","e","r","n","y"," ","3",".","1",
            " ","B","T","C">>],
      [glyphs |-> "arrow", side |-> "NO",
       text |->
          <<"DOWN","VS16"," ","F","e","r","n","y"," ","3",".","1"," ","B","T",
            "C">>],
      [glyphs |-> "arrow", side |-> "YES",
       text |->
          <<"UP"," ","F","e","r","n","a","n","d","o","-","O","G"," ","E","T",
            "H">>],
      [glyphs |-> "circle", side |-> "NO",
       text |->
          <<"RED"," ","F","e","r","n","y"," ","3",".","1"," ","S","O","L">>],
      [glyphs |-> "both", side |-> "NO",
       text |->
          <<"UP"," ","RED"," ","F","e","r","n","y"," ","X","R","P">>]
    }

RECURSIVE LineChoices(_)
\* the increasing index sequences of at most n field lines, one per field
LineChoices(n) ==
    IF n = 0 THEN { << >> }
    ELSE LET shorter == LineChoices(n - 1)
         IN  shorter \cup
             UNION { { Append(q, k) :
                         k \in {j \in 1..Len(FieldLines) :
                                   \A i \in 1..Len(q) :
                                      /\ q[i] < j
                                      /\ FieldLines[q[i]].field # FieldLines[j].field} } :
                     q \in {x \in shorter : Len(x) = n - 1} }

FieldMessages == [head : FieldHeads, lines : LineChoices(MaxFieldLines)]

RECURSIVE FieldBody(_)
\* the chosen lines, each after a <br>
FieldBody(q) ==
    IF q = << >> THEN << >>
    ELSE BR1 \o FieldLines[Head(q)].text \o FieldBody(Tail(q))

FieldMessageDiv(m) ==
    Div(FALSE, Some(TitleFeb3), Some("Ferny Bots"),
        Some(m.head.text \o FieldBody(m.lines)))

InitFields ==
    /\ pc = "parse"
    /\ sample \in { Some(m) : m \in FieldMessages }
    /\ input = Some(FieldMessageDiv(sample[1]))
    /\ output = None
    /\ last_sender = ""
    /\ exc = ""
    /\ glob_files = << >>
    /\ target_date = None
    /\ html_files = << >>
    /\ file_idx = 0
    /\ msg_idx = 0
    /\ all_events = << >>
    /\ origins = << >>
    /\ prev_doc_sender = ""
    /\ effects = << >>

SpecFields == InitFields /\ [][NextMessage]_vars

(***************************************************************************)
(* Properties of the optional fields                                       *)
(***************************************************************************)
\* the field lines of the message
ChosenLines == { FieldLines[sample[1].lines[k]] : k \in 1..Len(sample[1].lines) }

OptionalFields ==
    {"contract", "contract_expiry", "side", "tier", "gap", "hurdle", "exp_move",
     "strike", "net_pnl", "session_wins", "session_losses", "session_pnl",
     "flips"}

IntFields == {"tier", "flips", "session_wins", "session_losses"}

DecimalFields == {"gap", "hurdle", "exp_move", "strike", "net_pnl", "session_pnl"}

\* the event fields a field line gives a value to
FieldsOf(l) ==
    IF l.kind \notin {"value", "undecoded"} THEN {}
    ELSE IF l.field = "contract"
         THEN (IF l.kind = "value" THEN {"contract", "contract_expiry"}
               ELSE {"contract"})
    ELSE IF l.field = "session"
         THEN {"session_wins", "session_losses", "session_pnl"}
    ELSE {l.field}

\* the lines of the message in which the extractor of f finds a match
MatchedFor(f) == { l \in ChosenLines : f \in FieldsOf(l) }

\* the text states a zero for the numeric field f
StatesZero(f) ==
    \E l \in MatchedFor(f) :
        IF f = "session_wins" THEN l.w = 0
        ELSE IF f = "session_losses" THEN l.l = 0
        ELSE l.num = 0

Zero == [num |-> 0, exp |-> 0]

\* C11: on every emitted event, an optional field whose extractor finds no
\* match in the text (for the side: no keyword and no glyph) is absent, and
\* a numeric field is zero only when the text states a zero.
C11_NoMatchIsAbsent ==
    pc = "parsed" /\ ~IsNone(output[1].event)
       => LET ev == output[1].event[1]
          IN  /\ \A f \in OptionalFields :
                    (MatchedFor(f) = {}
                       /\ ~(f = "side" /\ sample[1].head.glyphs # "none"))
                    => ev[f] = None
              /\ \A f \in IntFields : ev[f] = Some(0) => StatesZero(f)
              /\ \A f \in DecimalFields : ev[f] = Some(Zero) => StatesZero(f)

\* an event whose text states a zero gap, has an "N/A" line and no hurdle:
\* the gap is zero, the other two are absent
C11_Witness ==
    /\ pc = "parsed"
    /\ \E l \in ChosenLines : l.field = "gap" /\ l.kind = "value" /\ l.num = 0
    /\ \E l \in ChosenLines : l.kind = "none" /\ l.field = "net_pnl"
    /\ output[1].event[1].gap = Some(Zero)
    /\ output[1].event[1].net_pnl = None
    /\ output[1].event[1].hurdle = None

\* the message has a line whose matched numeral is no number
HasMalformed == \E l \in ChosenLines : l.kind = "malformed"

\* C12: a numeral that an extractor has matched but that is no valid number
\* makes the extraction fail: the ValueError leaves _parse_message, and no
\* event (with the field absent or zero) is returned.
C12_MalformedNumeralRaises ==
    (pc \in {"parsed", "raised"} /\ HasMalformed)
       => /\ pc = "raised"
          /\ exc = "ValueError"
          /\ output[1].raised
          /\ IsNone(output[1].event)

\* the parse of a message with a numeral made of separators only has raised
C12_Witness ==
    /\ pc = "raised"
    /\ output[1].raised
    /\ \E l \in ChosenLines :
          l.kind = "malformed" /\ l.field = "gap" /\ "1" \notin {l.text[k] : k \in 1..Len(l.text)}

\* the event field a currency line is about
CurrencyFieldOf(l) == IF l.field = "session" THEN "session_pnl" ELSE l.field

CurrencyLines ==
    { l \in ChosenLines : l.field \in {"gap", "exp_move", "strike", "net_pnl", "session"} }

ResolvePrefixes ==
    {
      [text   |-> << >>,
       second |-> << >>,
       kept   |-> << >>],
      [text   |-> <<"RED"," ">>,
       second |-> << >>,
       kept   |-> << >>],
      [text   |-> <<"W","I","N"," ">>,
       second |-> << >>,
       kept   |-> << >>],
      [text   |-> <<"SLOT"," ","J","A","C","K","P","O","T"," ">>,
       second |-> << >>,
       kept   |-> << >>],
      [text   |-> <<"J","A","C","K","P","O","T"," ","W","I","N"," ">>,
       second |-> <<"W","I","N"," ">>,
       kept   |-> << >>],
      [text   |-> <<"P","A","R","T","I","A","L"," ","W","I","N"," ">>,
       second |-> << >>,
       kept   |-> << >>],
      [text   |-> <<"W","I","N"," ","J","A","C","K","P","O","T"," ">>,
       second |-> <<"J","A","C","K","P","O","T"," ">>,
       kept   |-> <<"J","A","C","K","P","O","T"," ">>],
      [text   |-> <<"W","I","N"," ","W","I","N"," ">>,
       second |-> <<"W","I","N"," ">>,
       kept   |-> <<"W","I","N"," ">>]
    }

\* bot names, with whether the name carries the 1HR marker
ResolveNames ==
    {
      [text |-> <<"F","e","r","n","y"," ","3",".","1">>, marked1HR |-> FALSE],
      [text |-> <<"F","e","r","n","a","n","d","o","-","O","G">>, marked1HR |-> FALSE],
      [text |-> <<"F","e","r","n","y"," ","1","H","R">>, marked1HR |-> TRUE],
      [text |-> <<"F","e","r","n","y"," ","1","h","r">>, marked1HR |-> TRUE],
      [text |-> << >>, marked1HR |-> FALSE]
    }

\* the last token of the first line, with the known asset code it is (none
\* for << >>)
ResolveLasts ==
    {
      [text |-> <<" ","B","T","C">>, known |-> <<"B","T","C">>],
      [text |-> <<" ","e","t","h">>, known |-> <<"E","T","H">>],
      [text |-> <<" ","D","O","G","E">>, known |-> << >>],
      [text |-> << >>, known |-> << >>]
    }

\* what follows the first line: nothing, or a contract line whose id
\* decodes, is outside the identifier grammar, or matches the grammar with
\* a day out of range
ResolveContracts ==
    {
      [kind |-> "none", asset |-> << >>, timeframe |-> << >>,
       text |->
          << >>],
      [kind |-> "decodes", asset |-> <<"X","R","P">>, timeframe |-> <<"1","H","R">>,
       text |->
          <<"LF","C","o","n","t","r","a","c","t",":"," ","K","X","X","R","P",
            "D","-","2","6","F","E","B","0","3","1","0","1","5","-","1","5">>],
      [kind |-> "decodes", asset |-> <<"S","O","L">>, timeframe |-> <<"1","5","M">>,
       text |->
          <<"LF","C","o","n","t","r","a","c","t",":"," ","K","X","S","O","L",
            "1","5","M","-","2","6","F","E","B","0","3","1","0","1","5","-",
            "1","5">>],
      [kind |-> "mismatch", asset |-> << >>, timeframe |-> << >>,
       text |->
          <<"LF","C","o","n","t","r","a","c","t",":"," ","K","X","B","T","C",
            "-","2","6","F","E","B","0","3","-","1","5">>],
      [kind |-> "out_of_range", asset |-> << >>, timeframe |-> << >>,
       text |->
          <<"LF","C","o","n","t","r","a","c","t",":"," ","K","X","B","T","C",
            "1","5","M","-","2","6","F","E","B","3","2","1","0","1","5","-",
            "1","5">>]
    }

ResolveSamples ==
    [prefix : ResolvePrefixes, name : ResolveNames, last : ResolveLasts,
     contract : ResolveContracts]

ResolveText(r) == r.prefix.text \o r.name.text \o r.last.text \o r.contract.text

InitResolve ==
    /\ pc = "resolve"
    /\ sample \in { Some(r) : r \in ResolveSamples }
    /\ input = Some(ResolveText(sample[1]))
    /\ output = None
    /\ IdleWalker

\* bot_name, asset, timeframe = _extract_bot_and_asset(plain_text, event_type)
Resolve ==
    /\ pc = "resolve"
    /\ pc' = "resolved"
    /\ output' = Some(extract_bot_and_asset(input[1]))
    /\ UNCHANGED <<exc, sample, input, walker_vars>>

SpecResolve == InitResolve /\ [][Resolve]_vars

\* the parts of the sample the resolver was applied to, and what it gave
Resolved == pc = "resolved" /\ sample # None /\ output # None

\* the cleaned first line of a resolver sample without its asset token
ResolveRemainder(r) ==
    Strip(r.prefix.kept \o r.name.text
             \o (IF r.last.known # << >> THEN << >> ELSE r.last.text))

ResolveAsset(r) ==
    IF r.last.known # << >> THEN r.last.known
    ELSE IF r.contract.kind = "decodes" THEN r.contract.asset
    ELSE sUNKNOWN

\* C14: the resolver gives the last token of the cleaned first line,
\* uppercased, as the asset when it is a known asset code, with the other
\* tokens rejoined as the bot name; otherwise the bot name is the whole
\* remainder and the asset is the one decoded from an embedded contract
\* identifier, or "UNKNOWN" when there is none or it does not decode.
C14_AssetAndBotName ==
    Resolved =>
        /\ ~output[1].raised
        /\ output[1].asset = ResolveAsset(sample[1])
        /\ (~sample[1].name.marked1HR /\ ResolveRemainder(sample[1]) # << >>)
               => output[1].bot_name = ResolveRemainder(sample[1])

\* C15: the resolver never fails, also on a text that embeds a contract
\* identifier matching the grammar with no valid timestamp, and its bot
\* name is never empty ("Unknown" when nothing remains).
C15_ResolverNeverFails ==
    Resolved =>
        /\ ~output[1].raised
        /\ output[1].bot_name # << >>
        /\ ResolveRemainder(sample[1]) = << >> => output[1].bot_name = sUnknown

\* the side the message's "Side:" line states, None without such a line
KeywordSide ==
    IF \E l \in ChosenLines : l.field = "side"
    THEN Some(IF \E l \in ChosenLines : l.field = "side" /\ l.num = 1
              THEN "YES" ELSE "NO")
    ELSE None

IdWellFormed(c) ==
    /\ c.prefix = <<"K","X">>
    /\ c.asset # << >>
    /\ c.tf \in { <<"1","5","M">>, <<"D">> }
    /\ Len(c.ss) = 2

\* the number a two-digit group of the samples writes
IdValue(d) ==
    CASE d = <<"0","0">> -> 0
      [] d = <<"0","3">> -> 3
      [] d = <<"1","0">> -> 10
      [] d = <<"1","5">> -> 15
      [] d = <<"2","3">> -> 23
      [] d = <<"2","4">> -> 24
      [] d = <<"2","6">> -> 26
      [] d = <<"2","9">> -> 29
      [] d = <<"3","0">> -> 30
      [] d = <<"3","1">> -> 31
      [] d = <<"6","0">> -> 60

\* the calendar number of the month abbreviations of the samples that are
\* in the table
IdMonthNumber(mon) == IF mon = <<"F","E","B">> THEN 2 ELSE 12

\* day, time and second groups that are in range in every month and year
IdInRange(c) ==
    /\ c.dd = <<"0","3">>
    /\ c.hhmm = <<"1","0","1","5">>
    /\ c.ss = <<"1","5">>

\* C17: a well-formed identifier decodes to year 2000 + its year suffix,
\* the table index of its month abbreviation, and its own day, hour,
\* minute and second groups; the asset is its asset code and raw is the
\* input string.
C17_ContractRoundTrip ==
    (/\ pc = "decoded"
     /\ IdWellFormed(sample[1])
     /\ sample[1].mon # <<"X","X","X">>)
       => /\ IdInRange(sample[1]) => output[1].tag = "ContractInfo"
          /\ output[1].tag = "ContractInfo" =>
               /\ output[1].expiry_time =
                     [year   |-> 2000 + IdValue(sample[1].yy),
                      month  |-> IdMonthNumber(sample[1].mon),
                      day    |-> IdValue(sample[1].dd),
                      hour   |-> IdValue(SubSeq(sample[1].hhmm, 1, 2)),
                      minute |-> IdValue(SubSeq(sample[1].hhmm, 3, 4)),
                      second |-> IdValue(sample[1].ss)]
               /\ output[1].date =
                     [year  |-> 2000 + IdValue(sample[1].yy),
                      month |-> IdMonthNumber(sample[1].mon),
                      day   |-> IdValue(sample[1].dd)]
               /\ output[1].asset = sample[1].asset
               /\ output[1].raw = input[1]

\* KXBTCD-00FEB291015-15 was decoded to 29 February 2000, 10:15:15
C17_Witness ==
    /\ pc = "decoded"
    /\ IdWellFormed(sample[1])
    /\ sample[1].asset = <<"B","T","C">>
    /\ sample[1].tf = <<"D">>
    /\ sample[1].yy = <<"0","0">>
    /\ sample[1].mon = <<"F","E","B">>
    /\ sample[1].dd = <<"2","9">>
    /\ output[1].tag = "ContractInfo"
    /\ output[1].expiry_time =
          [year |-> 2000, month |-> 2, day |-> 29, hour |-> 10, minute |-> 15,
           second |-> 15]

\* C18: an identifier whose month abbreviation is not in MONTH_MAP is no
\* grammar mismatch: it still decodes, and its month is 1.
C18_UnknownMonthIsJanuary ==
    (/\ pc = "decoded"
     /\ IdWellFormed(sample[1])
     /\ sample[1].mon = <<"X","X","X">>)
       => /\ output[1].tag # "None"
          /\ (sample[1].dd \in { <<"0","3">>, <<"2","9">>, <<"3","1">> }
                /\ sample[1].hhmm = <<"1","0","1","5">>
                /\ sample[1].ss = <<"1","5">>)
               => output[1].tag = "ContractInfo"
          /\ output[1].tag = "ContractInfo" =>
               /\ output[1].expiry_time.month = 1
               /\ output[1].date.month = 1
               /\ output[1].expiry_time.day = IdValue(sample[1].dd)

\* KX..-26XXX311015-15 was decoded to 31 January 2026
C18_Witness ==
    /\ pc = "decoded"
    /\ IdWellFormed(sample[1])
    /\ sample[1].mon = <<"X","X","X">>
    /\ sample[1].yy = <<"2","6">>
    /\ sample[1].dd = <<"3","1">>
    /\ output[1].tag = "ContractInfo"
    /\ output[1].date = [year |-> 2026, month |-> 1, day |-> 31]

(***************************************************************************)
(* The walk of get_events with target_date = None, as a function of the    *)
(* sorted files: the events and the carried sender after message m of file *)
(* f (m = 0: at the start of file f)                                       *)
(***************************************************************************)
RECURSIVE UnfilteredWalk(_, _, _)
UnfilteredWalk(files, f, m) ==
    LET Stepped(before, r) ==
            [events |-> IF IsNone(r.event) THEN before.events
                        ELSE AppendEvent(before.events, r.event[1]),
             sender |-> r.last_sender]
        Parsed(before) ==
            Stepped(before, ParseTable[files[f].msgs[m], before.sender])
        NextFile(before) ==
            [events |-> before.events, sender |-> SenderAtFileStart(before.sender)]
    IN  IF m > 0 THEN Parsed(UnfilteredWalk(files, f, m - 1))
        ELSE IF f > 1
             THEN NextFile(UnfilteredWalk(files, f - 1, Len(files[f - 1].msgs)))
        ELSE [events |-> << >>, sender |-> ""]

\* the event's timestamp falls on the calendar date the run was given
OnTargetDate(event) ==
    \/ target_date = None
    \/ /\ event.timestamp.year = target_date[1].year
       /\ event.timestamp.month = target_date[1].month
       /\ event.timestamp.day = target_date[1].day

\* C19: at every point of the walk, and so at its end, the list built with
\* a target date is the subsequence, in order, of the list the unfiltered
\* walk of the same documents has built there whose timestamps fall on that
\* date; the carried sender and the position in the documents are those of
\* the unfiltered walk.
C19_FilterIsSubsequence ==
    pc \in {"loop", "done"} =>
        /\ all_events =
              SelectSeq(UnfilteredWalk(html_files, file_idx, msg_idx).events,
                        OnTargetDate)
        /\ last_sender = UnfilteredWalk(html_files, file_idx, msg_idx).sender

\* a walk with a target date has returned fewer events, at least one, than
\* the documents hold
C19_Witness ==
    /\ pc = "done"
    /\ target_date # None
    /\ all_events # << >>
    /\ Len(all_events) < Len(UnfilteredWalk(html_files, file_idx, msg_idx).events)

(***************************************************************************)
(* get_export_folder, and a run that resolves the folder and walks it      *)
(* (run_report, export_data, load_local_data)                              *)
(***************************************************************************)
\* the folder copied without looking whether it exists
get_export_folder_unchecked(export_date, today, existing) ==
    LET D2(n) == <<Digits[(n \div 10) + 1], Digits[(n % 10) + 1]>>
        Named(d) ==
            [raised |-> FALSE,
             folder |-> <<"C","h","a","t","E","x","p","o","r","t","_">>
                           \o D2(d.year \div 100) \o D2(d.year % 100) \o <<"-">>
                           \o D2(d.month) \o <<"-">> \o D2(d.day)]
    IN  Named(IF IsNone(export_date) THEN today ELSE export_date[1])

\* result: [raised, folder]; existing is the set of folder names found
\* under TELEGRAM_EXPORT_ROOT
get_export_folder(export_date, today, existing) ==
    LET D2(n) == <<Digits[(n \div 10) + 1], Digits[(n % 10) + 1]>>
        \* f"ChatExport_{export_date.isoformat()}"
        FolderName(d) ==
            <<"C","h","a","t","E","x","p","o","r","t","_">>
               \o D2(d.year \div 100) \o D2(d.year % 100) \o <<"-">>
               \o D2(d.month) \o <<"-">> \o D2(d.day)
        Checked(folder) ==
            IF folder \notin existing
            THEN [raised |-> TRUE, folder |-> << >>]
            ELSE [raised |-> FALSE, folder |-> folder]
    IN  Checked(FolderName(IF IsNone(export_date) THEN today ELSE export_date[1]))

ExportFeb3 ==
    <<"C","h","a","t","E","x","p","o","r","t","_","2","0","2","6","-","0","2","-","0","3">>

ExportFeb4 ==
    <<"C","h","a","t","E","x","p","o","r","t","_","2","0","2","6","-","0","2","-","0","4">>

\* a run: the date asked for, the day it runs, the folders under the export
\* root, and the message documents of the folder asked for
ExportRuns ==
    [export_date : { None, Some([year |-> 2026, month |-> 2, day |-> 3]) },
     today       : { [year |-> 2026, month |-> 2, day |-> 3],
                     [year |-> 2026, month |-> 2, day |-> 4] },
     existing    : { {}, {ExportFeb3}, {ExportFeb4} },
     documents   : FileLists(MaxFiles)]

InitExport ==
    /\ pc = "resolve_folder"
    /\ sample \in { Some(e) : e \in ExportRuns }
    /\ input = None
    /\ output = None
    /\ IdleWalker

\* folder = get_export_folder(export_date); source = HTMLMessageSource(folder)
GetExportFolder ==
    /\ pc = "resolve_folder"
    /\ output' = Some(get_export_folder(sample[1].export_date, sample[1].today,
                                        sample[1].existing))
    /\ IF output'[1].raised
       THEN /\ pc' = "raised"
            /\ exc' = "FileNotFoundError"
            /\ UNCHANGED glob_files
       ELSE /\ pc' = "start"
            /\ glob_files' = sample[1].documents
            /\ UNCHANGED exc
    /\ UNCHANGED <<sample, input, target_date, html_files, file_idx, msg_idx,
                   last_sender, all_events, origins, prev_doc_sender,
                   effects>>

NextExport ==
    \/ GetExportFolder
    \/ GetEventsStart
    \/ ParseMessage
    \/ EndOfFile
    \/ Return

SpecExport == InitExport /\ [][NextExport]_vars

\* the folder of the run's date is not among the folders under the root
ExportLocationMissing ==
    (IF sample[1].export_date = None THEN sample[1].today
     ELSE sample[1].export_date[1]).day
        \notin { IF n = ExportFeb3 THEN 3 ELSE 4 : n \in sample[1].existing }

\* C20: a run whose export location does not exist ends in the folder
\* resolution, and a run whose folder holds no message document ends in
\* the walker, both with FileNotFoundError: the walker is never (re)entered,
\* nothing is returned, and no event list, empty or not, results.
C20_InputAbsentIsFatal ==
    /\ (ExportLocationMissing /\ pc # "resolve_folder")
          => /\ pc = "raised"
             /\ exc = "FileNotFoundError"
             /\ output[1].raised
             /\ html_files = << >> /\ all_events = << >>
    /\ (~ExportLocationMissing /\ sample[1].documents = << >>
          /\ pc \notin {"resolve_folder", "start"})
          => /\ pc = "raised"
             /\ exc = "FileNotFoundError"
             /\ html_files = << >> /\ all_events = << >>

\* the folder of today's date exists and is empty: the walker has raised
C20_Witness ==
    /\ pc = "raised"
    /\ exc = "FileNotFoundError"
    /\ sample[1].export_date = None
    /\ ~ExportLocationMissing
    /\ sample[1].documents = << >>
    /\ output[1].folder \in sample[1].existing

(***************************************************************************)
(* get_events called twice on the same folder; the second glob may list    *)
(* the same files in another order                                         *)
(***************************************************************************)
\* file name suffixes, two of them with the same sort key
RerunNames ==
    { [num |-> << >>,   ord |-> 0],
      [num |-> <<"0">>, ord |-> 0],
      [num |-> <<"2">>, ord |-> 2] }

RerunFiles == { [num |-> n.num, ord |-> n.ord, msgs |-> doc] :
                   n \in RerunNames, doc \in Documents }

RECURSIVE RerunLists(_)
\* the lists of 1..n files with distinct names
RerunLists(n) ==
    IF n = 0 THEN { << >> }
    ELSE LET shorter == RerunLists(n - 1)
             pairs   == {p \in shorter \X RerunFiles :
                            /\ Len(p[1]) = n - 1
                            /\ \A k \in 1..Len(p[1]) : p[1][k].num # p[2].num}
         IN  shorter \cup {Append(p[1], p[2]) : p \in pairs}

InitRerun ==
    /\ pc = "start"
    /\ exc = ""
    /\ sample = Some([run |-> 1, first |-> << >>])
    /\ input = None
    /\ output = None
    /\ glob_files \in RerunLists(MaxFiles) \ { << >> }
    /\ target_date \in TargetDates
    /\ html_files = << >>
    /\ file_idx = 0
    /\ msg_idx = 0
    /\ last_sender = ""
    /\ all_events = << >>
    /\ origins = << >>
    /\ prev_doc_sender = ""
    /\ effects = << >>

\* the caller keeps the list returned and calls get_events again: the
\* folder holds the same files, listed in any order
Rerun ==
    /\ pc = "done"
    /\ sample[1].run = 1
    /\ sample' = Some([run |-> 2, first |-> all_events])
    /\ glob_files' \in { p \in RerunLists(MaxFiles) :
                            Len(p) = Len(glob_files) /\ Range(p) = Range(glob_files) }
    /\ pc' = "start"
    /\ html_files' = << >>
    /\ file_idx' = 0
    /\ msg_idx' = 0
    /\ last_sender' = ""
    /\ all_events' = << >>
    /\ origins' = << >>
    /\ prev_doc_sender' = ""
    /\ UNCHANGED <<exc, input, output, target_date, effects>>

NextRerun ==
    \/ GetEventsStart
    \/ ParseMessage
    \/ EndOfFile
    \/ Return
    \/ Rerun

SpecRerun == InitRerun /\ [][NextRerun]_vars

\* C21: the second run over the unchanged document set returns the event
\* sequence of the first, in the same order, whatever order the documents
\* are discovered in.
C21_RerunIsIdentical ==
    (pc = "done" /\ sample[1].run = 2) => all_events = sample[1].first

(***************************************************************************)
(* _parse_message on nodes made of their parts, with every carried sender  *)
(***************************************************************************)
\* "SIGNAL Ferny 3.1 BTC", a Side line and a fill line
HtmlSignalWithFill ==
    <<"S","I","G","N","A","L"," ","F","e","r","n","y"," ","3",".","1"," ","B",
      "T","C","<","b","r",">","S","i","d","e",":"," ","Y","E","S","<","b","r",
      ">","CHECK"," ","Y","E","S"," ","5","@","5","0","CENT"," ","ARROW"," ",
      "$","+","2",".","5","0">>

\* "WIN Ferny 3.1 BTC" and a fill line of quantity 0
HtmlWinZeroQuantity ==
    <<"W","I","N"," ","F","e","r","n","y"," ","3",".","1"," ","B","T","C","<",
      "b","r",">","CHECK"," ","Y","E","S"," ","0","@","5","0","CENT"," ",
      "ARROW"," ","$","+","0",".","0","0">>

\* the date div of a node: absent, or with a title that is a timestamp, that
\* TS_RE does not match, or that TS_RE matches with day 31 of February
NodeDates ==
    { [kind |-> "none",         title |-> None],
      [kind |-> "ok",           title |-> Some(TitleFeb3)],
      [kind |-> "no_match",     title |-> Some(TitleNoMatch)],
      [kind |-> "out_of_range", title |-> Some(TitleOutOfRange)] }

\* the text div of a node: absent, or the markup of a message
NodeTexts ==
    { [kind |-> "none",             html |-> None],
      [kind |-> "signal",           html |-> Some(HtmlSignal)],
      [kind |-> "win",              html |-> Some(HtmlWin)],
      [kind |-> "jackpot",          html |-> Some(HtmlJackpot)],
      [kind |-> "startup",          html |-> Some(HtmlStartup)],
      [kind |-> "chatter",          html |-> Some(HtmlChatter)],
      [kind |-> "bad_numeral",      html |-> Some(HtmlBadNumeral)],
      [kind |-> "signal_with_fill", html |-> Some(HtmlSignalWithFill)],
      [kind |-> "win_zero_qty",     html |-> Some(HtmlWinZeroQuantity)] }

Nodes ==
    [service   : BOOLEAN,
     date      : NodeDates,
     from_name : {None} \cup { Some(s) : s \in Senders },
     text      : NodeTexts,
     carried   : SenderValues]

InitNode ==
    /\ pc = "parse"
    /\ sample \in { Some(n) : n \in Nodes }
    /\ input = Some(Div(sample[1].service, sample[1].date.title,
                        sample[1].from_name, sample[1].text.html))
    /\ output = None
    /\ last_sender = sample[1].carried
    /\ exc = ""
    /\ glob_files = << >>
    /\ target_date = None
    /\ html_files = << >>
    /\ file_idx = 0
    /\ msg_idx = 0
    /\ all_events = << >>
    /\ origins = << >>
    /\ prev_doc_sender = ""
    /\ effects = << >>

SpecNode == InitNode /\ [][NextMessage]_vars

\* C22: the event (or its absence, or the exception) that _parse_message
\* gives for a node is the same for every carried-in sender.
C22_SenderNeverAffectsEvent ==
    pc \in {"parsed", "raised"} =>
        LET Same(r) == /\ r.event = output[1].event
                       /\ r.raised = output[1].raised
        IN  \A s \in SenderValues : Same(parse_message(input[1], s))

\* a node without sender text was parsed to an event with "Fernando"
\* carried in and carried on
C22_Witness ==
    /\ pc = "parsed"
    /\ sample[1].from_name = None
    /\ sample[1].carried = "Fernando"
    /\ sample[1].text.kind = "win"
    /\ ~IsNone(output[1].event)
    /\ output[1].last_sender = "Fernando"

\* the node returns before its from_name div is looked at
ReturnsBeforeSender(n) == n.service \/ n.date.kind \in {"none", "no_match"}

\* C28: a service node and a node without a decodable timestamp leave the
\* carried sender as it was, also when they have sender text; every other
\* node with sender text sets it to that text, also when no event results;
\* a node without sender text leaves it as it was.
C28_SenderUpdateRule ==
    pc \in {"parsed", "raised"} =>
        /\ (ReturnsBeforeSender(sample[1]) \/ sample[1].date.kind = "out_of_range"
              \/ sample[1].from_name = None)
             => last_sender = sample[1].carried
        /\ (~ReturnsBeforeSender(sample[1]) /\ sample[1].date.kind = "ok"
              /\ sample[1].from_name # None /\ pc = "parsed")
             => last_sender = sample[1].from_name[1]

\* a startup node with sender text gave no event and replaced the sender
C28_Witness ==
    /\ pc = "parsed"
    /\ ~sample[1].service
    /\ sample[1].date.kind = "ok"
    /\ sample[1].text.kind = "startup"
    /\ sample[1].from_name = Some("Ferny Bots")
    /\ sample[1].carried = "Fernando"
    /\ IsNone(output[1].event)
    /\ last_sender = "Ferny Bots"

\* C23: every emitted SIGNAL event has no fills, whatever its text holds;
\* only WIN, LOSS and JACKPOT events carry fills, and they may carry none.
C23_SignalHasNoFills ==
    (pc = "parsed" /\ ~IsNone(output[1].event)) =>
        /\ output[1].event[1].event_type = "SIGNAL"
             => output[1].event[1].fills = << >>
        /\ output[1].event[1].fills # << >>
             => output[1].event[1].event_type \in {"WIN", "LOSS", "JACKPOT"}

\* C24: every Fill of every emitted event has a quantity of at least 1 and
\* an integer unit price.
C24_FillQuantityPositive ==
    (pc = "parsed" /\ ~IsNone(output[1].event)) =>
        \A k \in 1..Len(output[1].event[1].fills) :
            /\ output[1].event[1].fills[k].quantity \in Nat \ {0}
            /\ output[1].event[1].fills[k].price_cents \in Int

\* the bot name of a resolver sample whose name has no 1HR marker, when
\* front is what the keyword removal leaves of the prefix
ResolveNameWith(r, front) ==
    LET Named(whole) == IF whole = << >> THEN sUnknown ELSE whole
    IN  Named(Strip(front \o r.name.text
                       \o (IF r.last.known # << >> THEN << >> ELSE r.last.text)))

\* C25 as stated: exactly one leading keyword, the longest matching, is
\* removed; a second keyword that follows it stays in the bot name.
C25_OneKeywordStripped ==
    (Resolved /\ ~output[1].raised /\ ~sample[1].name.marked1HR)
       => output[1].bot_name = ResolveNameWith(sample[1], sample[1].prefix.second)

\* C25, amended: the keyword list (FLIP SIGNAL, JACKPOT 1HR, JACKPOT,
\* PARTIAL LOSS, PARTIAL WIN, LOSS, WIN, SIGNAL, Started) is walked once and
\* each keyword leading the line at its turn is removed; a second keyword
\* stays in the bot name only when it is the first one again or comes
\* earlier in the list (WIN WIN, WIN JACKPOT), and is removed as well when
\* it comes later (JACKPOT WIN).
C25_KeywordsStrippedInListOrder ==
    (Resolved /\ ~output[1].raised /\ ~sample[1].name.marked1HR)
       => output[1].bot_name = ResolveNameWith(sample[1], sample[1].prefix.kept)

\* "JACKPOT WIN Ferny 3.1 BTC" was resolved to the bot name "Ferny 3.1"
C25_Witness ==
    /\ Resolved
    /\ sample[1].prefix.second = <<"W","I","N"," ">>
    /\ sample[1].prefix.kept = << >>
    /\ sample[1].last.known = <<"B","T","C">>
    /\ output[1].bot_name = <<"F","e","r","n","y"," ","3",".","1">>

\* C26: the timeframe is "1HR" when the bot name contains "1HR" in any
\* case, the marker then being removed from the name, even when an embedded
\* contract identifier decodes to 15M; otherwise it is the decoded
\* timeframe of the embedded identifier, and "15M" without one; it is always
\* "15M" or "1HR".
C26_Timeframe ==
    (Resolved /\ ~output[1].raised) =>
        /\ output[1].timeframe \in {s15M, s1HR}
        /\ output[1].timeframe =
              IF sample[1].name.marked1HR THEN s1HR
              ELSE IF sample[1].contract.kind = "decodes"
                   THEN sample[1].contract.timeframe
              ELSE s15M
        /\ sample[1].name.marked1HR =>
              output[1].bot_name =
                 Strip(sample[1].prefix.kept \o <<"F","e","r","n","y">>
                          \o (IF sample[1].last.known # << >> THEN << >>
                              ELSE sample[1].last.text))

\* "Ferny 1hr DOGE" with a 15M contract was resolved to 1HR and "Ferny DOGE"
C26_Witness ==
    /\ Resolved
    /\ sample[1].name.text = <<"F","e","r","n","y"," ","1","h","r">>
    /\ sample[1].contract.kind = "decodes"
    /\ sample[1].contract.timeframe = s15M
    /\ sample[1].last.text = <<" ","D","O","G","E">>
    /\ sample[1].prefix.text = << >>
    /\ output[1].timeframe = s1HR
    /\ output[1].bot_name = <<"F","e","r","n","y"," ","D","O","G","E">>

\* C27: two well-formed identifiers that differ only in the trailing
\* two-digit group decode to the same asset, timeframe and expiry.
C27_TrailingSuffixUnused ==
    (pc = "decoded" /\ IdWellFormed(sample[1]) /\ output[1].tag = "ContractInfo")
       => LET Same(other) ==
                  other.tag = "ContractInfo"
                     => /\ other.asset = output[1].asset
                        /\ other.timeframe = output[1].timeframe
                        /\ other.expiry_time = output[1].expiry_time
          IN  \A ss \in { d \in IdSeconds : Len(d) = 2 } :
                 Same(decode_contract(ContractIdText([sample[1] EXCEPT !.ss = ss])))

\* the documents hold something that raises: a file name with a suffix that
\* is no number, or a message with a malformed numeral, a contract
\* identifier with an out-of-range date, or a timestamp that is no date
HasRaisingInput ==
    \/ \E f \in 1..Len(glob_files) : glob_files[f].ord < 0
    \/ \E f \in 1..Len(glob_files) : \E k \in 1..Len(glob_files[f].msgs) :
          glob_files[f].msgs[k] \in {BadNumeralDiv, BadContractDiv, BadDateDiv}

\* C29: get_events returns the events of the whole document set or raises:
\* it returns only after every message of every document was parsed, and
\* when a file name or a message raises it never returns, whatever had been
\* collected before.
C29_AllOrNothing ==
    /\ pc = "done" =>
          /\ file_idx = Len(html_files) + 1
          /\ Len(html_files) = Len(glob_files)
          /\ all_events =
                SelectSeq(UnfilteredWalk(html_files, Len(html_files) + 1, 0).events,
                          OnTargetDate)
    /\ (HasRaisingInput /\ glob_files # << >>) => pc # "done"
    /\ pc = "raised" => (HasRaisingInput \/ glob_files = << >>)

\* a message of the second document raised after events of the first had
\* been collected
C29_Witness ==
    /\ pc = "raised"
    /\ exc = "ValueError"
    /\ file_idx = 2
    /\ all_events # << >>
    /\ all_events[1] = origins[1].event
    /\ origins[1].file = 1

(***************************************************************************)
(* publish.py: main, export_data and git_push.  effects lists, in order,   *)
(* what the run has done outside the process: "write" (the files under     *)
(* published_data/), "push" (git add, commit, push) and "notify" (the      *)
(* Telegram message)                                                       *)
(***************************************************************************)
MaxPublishFiles == 1

\* a publish run: --date, the folders under the export root, the message
\* documents of the folder, --no-push, --no-notify, and whether git succeeds
PublishRuns ==
    [export_date : { Some([year |-> 2026, month |-> 2, day |-> 3]) },
     today       : { [year |-> 2026, month |-> 2, day |-> 4] },
     existing    : { {}, {ExportFeb3} },
     documents   : FileLists(MaxPublishFiles),
     no_push     : BOOLEAN,
     no_notify   : BOOLEAN,
     git_ok      : BOOLEAN]

InitPublish ==
    /\ pc = "resolve_folder"
    /\ sample \in { Some(r) : r \in PublishRuns }
    /\ input = None
    /\ output = None
    /\ IdleWalker

\* nothing is published without events
NoStats_never(events) == FALSE

\* "not stats": overall_stats(df) is {} exactly when df is empty, and
\* events_to_dataframe gives one row per event
NoStats(events) == events = << >>

\* export_data after get_events has returned, and "if not stats: return"
ExportData ==
    /\ pc = "done"
    /\ IF NoStats(all_events)
       THEN pc' = "finished" /\ UNCHANGED effects
       ELSE pc' = "exported" /\ effects' = Append(effects, "write")
    /\ UNCHANGED <<exc, sample, input, output, glob_files, target_date,
                   html_files, file_idx, msg_idx, last_sender, all_events,
                   origins, prev_doc_sender>>

\* "if not args.no_push: git_push(date_str)"; the value git_push returns
\* is not looked at
GitPush ==
    /\ pc = "exported"
    /\ pc' = "pushed"
    /\ effects' = IF sample[1].no_push THEN effects ELSE Append(effects, "push")
    /\ UNCHANGED <<exc, sample, input, output, glob_files, target_date,
                   html_files, file_idx, msg_idx, last_sender, all_events,
                   origins, prev_doc_sender>>

\* "if not args.no_notify: send_report_notification(stats, date_str)"
Notify ==
    /\ pc = "pushed"
    /\ pc' = "finished"
    /\ effects' = IF sample[1].no_notify THEN effects
                  ELSE Append(effects, "notify")
    /\ UNCHANGED <<exc, sample, input, output, glob_files, target_date,
                   html_files, file_idx, msg_idx, last_sender, all_events,
                   origins, prev_doc_sender>>

NextPublish ==
    \/ GetExportFolder
    \/ GetEventsStart
    \/ ParseMessage
    \/ EndOfFile
    \/ Return
    \/ ExportData
    \/ GitPush
    \/ Notify

SpecPublish == InitPublish /\ [][NextPublish]_vars

\* what a run that has exported does after the export, given its switches
EffectsAfterExport(r) ==
    <<"write">> \o (IF r.no_push THEN << >> ELSE <<"push">>)
                \o (IF r.no_notify THEN << >> ELSE <<"notify">>)

\* C30: git push and the notification happen only after the export step
\* has returned with at least one event, git push (unless disabled) before
\* the notification (unless disabled); with no events nothing is written
\* under published_data/ and neither push nor notification is attempted.
C30_PublishOrder ==
    /\ effects # << >> =>
          /\ pc \in {"exported", "pushed", "finished"}
          /\ all_events # << >>
          /\ effects[1] = "write"
    /\ \A i, j \in 1..Len(effects) :
          (effects[i] = "notify" /\ effects[j] = "push") => j < i
    /\ (pc = "finished" /\ all_events # << >>)
          => effects = EffectsAfterExport(sample[1])
    /\ (pc \in {"finished", "raised"} /\ all_events = << >>) => effects = << >>
    /\ pc = "raised" => effects = << >>

\* a run with neither switch, whose git push failed, has written, pushed
\* and notified, in that order
C30_Witness ==
    /\ pc = "finished"
    /\ ~sample[1].no_push
    /\ ~sample[1].no_notify
    /\ ~sample[1].git_ok
    /\ effects = <<"write", "push", "notify">>

====
